---- MODULE Spec2Model ----
(***************************************************************************)
(* Order lifecycle of signal-trader-bot: Trader.on_signal from the LIVE    *)
(* EXECUTION block on, execute_market_buy, place_bracket_atomic,           *)
(* place_oco, place_oco_after_fill and the override / trailing branches.   *)
(*                                                                         *)
(* Numbers.  Prices are integers counted in the smallest price unit the    *)
(* program can express (the resolution of round(x, 8) and of _fmt);        *)
(* TickSize is the exchange tick in those units.  Quantities are integers  *)
(* counted in the smallest quantity unit; StepSize is the lot step.  Every *)
(* product with a decimal factor (0.999, 1.02, ...) is computed exactly as *)
(* a fraction and floored or rounded where the code floors or rounds.      *)
(* Binary floating point error is not modelled.                            *)
(***************************************************************************)
EXTENDS Integers, Sequences, FiniteSets, TLC

\* ---------------------------------------------------------------- bounds
\* Largest free / locked balance the exchange reports for the base asset.
MaxBal == 8

\* ------------------------------------------------------- exchange filters
\* PRICE_FILTER.tickSize and LOT_SIZE.stepSize of the traded symbol.
TickSize == 2
StepSize == 2
\* min_notional fallback 5.0 of place_oco / place_bracket_atomic, in
\* (price unit x quantity unit).
DefaultMinNotional == 500

\* ----------------------------------------------------- program constants
\* for i in range(20) in execute_market_buy
MarketBuyPolls == 20
\* max_wait_s = 30.0 at 2.0 s per poll
BalanceWaitPolls == 15
\* for attempt in range(3)
OcoAttempts == 3
\* Settings.override_tp_pct = 0.03, override_sl_pct = 0.01 (percent)
OverrideTpPct == 3
OverrideSlPct == 1

\* ------------------------------------------------------------ input sets
Impls == {"trader_core", "signal_trader"}
SignalTps == {102, 110}
SignalStops == {90, 95}
FillPrices == {94, 100, 105}
FillQtys == {6, 8}
LivePrices == {88, 100, 112}
Balances == 0..MaxBal
\* Rejections of the OCO endpoint, by the text the code looks for.
Rejections == {"insufficient_balance", "filter_failure", "other"}
OcoResults == {"accepted", "no_id"} \cup Rejections
IssuedId == "oco1"

\* --------------------------------------------------------------- helpers
Min(a, b) == IF a <= b THEN a ELSE b

\* math.floor(n / d / grid) * grid for the fraction n / d
FloorFrac(n, d, grid) == (n \div (d * grid)) * grid

\* round(n / d, 8): nearest unit, ties to even
Round8(n, d) ==
    LET q == n \div d
        r == n % d
    IN  IF 2 * r > d THEN q + 1
        ELSE IF 2 * r < d THEN q
        ELSE IF q % 2 = 0 THEN q ELSE q + 1

round_tick(px, tick) == (px \div tick) * tick

round_step(qty, step) == (qty \div step) * step

\* _round_step(min(free_balance, filled_qty) * 0.999, step)
SafeQty(free, filled) == FloorFrac(Min(free, filled) * 999, 1000, StepSize)

\* _round_tick(sl_trigger * (1 - sl_limit_offset_frac), tick), offset 0.001
SlLimitOf(sl_trigger) == FloorFrac(sl_trigger * 999, 1000, TickSize)

\* "insufficient balance" in str(e).lower()
IsInsufficientAny(kind) == TRUE
IsInsufficient(kind) == kind = "insufficient_balance"

\* any(x in error_msg for x in ["insufficient balance", "Filter failure",
\*                              "NOTIONAL", "oco", "orderListId"])
IsSoft(kind) == kind \in {"insufficient_balance", "filter_failure", "missing_id"}

\* place_oco: what is sent for (quantity, tp, sl_trigger, sl_limit)
PlaceOcoNoGuard(quantity, tp, sl_trigger, sl_limit) ==
    LET qty0 == round_step(quantity, StepSize)
        tp1 == round_tick(tp, TickSize)
        sl1 == round_tick(sl_trigger, TickSize)
        lim0 == round_tick(sl_limit, TickSize)
        low == tp1 * qty0 < DefaultMinNotional \/ sl1 * qty0 < DefaultMinNotional
        qty1 == IF low /\ Min(tp1, sl1) > 0
                THEN FloorFrac(DefaultMinNotional * 105, Min(tp1, sl1) * 100, StepSize)
                ELSE qty0
    IN  [qty |-> qty1, tp |-> tp1, sl |-> sl1, sllim |-> lim0]
PlaceOco(quantity, tp, sl_trigger, sl_limit) ==
    LET qty0 == round_step(quantity, StepSize)
        tp1 == round_tick(tp, TickSize)
        sl1 == round_tick(sl_trigger, TickSize)
        lim0 == round_tick(sl_limit, TickSize)
        lim1 == IF lim0 >= sl1 THEN round_tick(sl1 - TickSize, TickSize) ELSE lim0
        low == tp1 * qty0 < DefaultMinNotional \/ sl1 * qty0 < DefaultMinNotional
        qty1 == IF low /\ Min(tp1, sl1) > 0
                THEN FloorFrac(DefaultMinNotional * 105, Min(tp1, sl1) * 100, StepSize)
                ELSE qty0
    IN  [qty |-> qty1, tp |-> tp1, sl |-> sl1, sllim |-> lim1]

\* the minNotional block at the head of each attempt of place_bracket_atomic
PbaNotionalQty(qty, tp, sl) ==
    IF (tp * qty < DefaultMinNotional \/ sl * qty < DefaultMinNotional) /\ Min(tp, sl) > 0
    THEN FloorFrac(DefaultMinNotional * 102, Min(tp, sl) * 100, StepSize)
    ELSE qty

\* ------------------------------------------------------------- variables
VARIABLES
    impl,          \* which Trader.on_signal runs: trader_core.py or signal_trader.py
    s,             \* the Settings snapshot on_signal reads
    sig,           \* the ParsedSignal: tp1, stop
    acceptable,    \* abs(last - entry) / entry <= max_slippage_pct
    pc,            \* position of the run
    polls,         \* i of the status-poll loop of execute_market_buy
    filled_qty,
    avg_price,
    tp_r,
    sl_tr_r,
    sl_lim_r,
    waited,        \* balance polls done (waited / 2.0)
    free_balance,
    safe_qty,      \* float(qty_str)
    attempt,
    oco_id,        \* "unbound" | "None" | an id the exchange issued
    step_bound,    \* signal_trader.py: local `step` assigned (line 861)
    res_oco_id,    \* res["oco_id"] in on_signal
    pbaOutcome,    \* "none" | "returned" | "raised"
    pbaErr,        \* what the raised RuntimeError says
    sigOutcome,    \* how on_signal ended
    position,      \* exchange: quantity of the entry fill the run was told of
    sells,         \* exchange: market sells requested, in order
    ocoLog,        \* exchange: OCO requests received, in order
    liveOco,       \* exchange: ids of accepted OCO order lists
    verified,      \* verify_oco returned True for oco_id
    stopOrder,     \* exchange: a fixed stop-loss order was accepted
    tracker,       \* runtime/oco_tracker.json: key -> stored "entry"
    executed,      \* exchange: executedQty of the entry order
    resting,       \* exchange: the limit entry order is open
    notified       \* the "BUY filled" notification on_signal sent, if any

cfgVars == <<impl, s, sig, acceptable>>
localVars == <<polls, filled_qty, avg_price, tp_r, sl_tr_r, sl_lim_r, waited,
               free_balance, safe_qty, attempt, oco_id, step_bound, res_oco_id>>
outVars == <<pbaOutcome, pbaErr, sigOutcome>>
exVars == <<position, sells, ocoLog, liveOco, verified, stopOrder, tracker>>
entryVars == <<executed, resting, notified>>
orderVars == <<cfgVars, pc, localVars, outVars, exVars, entryVars>>

\* the trailing watcher task, activate_trailing_logic
VARIABLES
    wpc,           \* position of the watcher: "off" before the task exists
    curr_px,       \* last price the watcher fetched
    slOpen,        \* exchange: the fixed stop-loss order is open
    held,          \* exchange: the position has not been sold
    cancelOk,      \* cancel_order of the fixed stop returned
    trailLog       \* exchange: trailing-stop submissions received, in order

watchVars == <<wpc, curr_px, slOpen, held, cancelOk, trailLog>>
WatchOff ==
    /\ wpc = "off"
    /\ curr_px = 0
    /\ slOpen = FALSE
    /\ held = FALSE
    /\ cancelOk = FALSE
    /\ trailLog = <<>>

\* two on_signal tasks of the one Trader, up to the duplicate check
VARIABLES
    tpc,           \* task -> position in on_signal
    tsig,          \* task -> its signal: resolved symbol, entry price
    now,           \* time.time(), in seconds
    recent,        \* self._recent_signals: (symbol, entry, ts) triples
    checkedAt      \* task -> `now` of its duplicate check, -1 before it

dupVars == <<tpc, tsig, now, recent, checkedAt>>
Tasks == {1, 2}
DupOff ==
    /\ tpc = [t \in Tasks |-> "off"]
    /\ tsig = [t \in Tasks |-> [sym |-> "none", entry |-> 0]]
    /\ now = 0
    /\ recent = {}
    /\ checkedAt = [t \in Tasks |-> -1]

\* the asyncio event loop: on_signal and the reconciliation loops are tasks
\* of one loop, which runs one of them at a time
VARIABLES
    lmode,         \* the branch on_signal takes
    ophase,        \* where on_signal is
    holder,        \* the task the loop's thread is running, "none" if idle
    lpc            \* loop task -> "sleeping" | "ready" | "running"

loopVars == <<lmode, ophase, holder, lpc>>
Loops == {"fill_monitor", "oco_classifier", "flatten_watchdog", "audit"}
LoopOff ==
    /\ lmode = "none"
    /\ ophase = "off"
    /\ holder = "none"
    /\ lpc = [l \in Loops |-> "sleeping"]

\* flatten_watchdog: the account it looks at and one pass over it
VARIABLES
    dpc,           \* "off" | "sleeping" | "visiting" | "ended"
    dbal,          \* asset -> free balance on the exchange
    dfacts,        \* asset -> its markets, last price and open protective orders
    open_assets,   \* the assets of this pass and their quantities
    dtodo,         \* assets of this pass not visited yet
    dq,            \* asset -> how the queries of its visit were answered
    dsold,         \* assets a market sell was submitted for in this pass
    dnoted,        \* assets a flatten notification was sent for in this pass
    dcut           \* the pass was ended by an exception

dogVars == <<dpc, dbal, dfacts, open_assets, dtodo, dq, dsold, dnoted, dcut>>
Assets == {"AAA", "BBB", "USDT"}
Unasked == [ticker |-> "unasked", rules |-> "unasked", orders |-> "unasked"]
DogOff ==
    /\ dpc = "off"
    /\ dbal = [a \in Assets |-> 0]
    /\ dfacts = [a \in Assets |-> 0]
    /\ open_assets = [a \in {} |-> 0]
    /\ dtodo = {}
    /\ dq = [a \in Assets |-> Unasked]
    /\ dsold = {}
    /\ dnoted = {}
    /\ dcut = FALSE

\* monitor_tracked_oco_loop: one pass over the tracker file
VARIABLES
    cpc,           \* "off" | "sleeping" | "visiting" | "ended"
    chist,         \* bracket id -> its child in the exchange's order history
    tracked,       \* the ids list_tracked_oco returned, not visited yet
    cfetched,      \* bracket id -> how get_all_orders answered, "unasked" if not called
    chits,         \* bracket id -> the notifications sent for it, in order
    ccut,          \* the pass was ended by an exception
    cstart         \* the keys of the tracker file when the pass began

clsVars == <<cpc, chist, tracked, cfetched, chits, ccut, cstart>>
TrackerKeys == {"oco1", "oco2", "None"}
ClsOff ==
    /\ cpc = "off"
    /\ chist = [k \in TrackerKeys |-> 0]
    /\ tracked = {}
    /\ cfetched = [k \in TrackerKeys |-> "unasked"]
    /\ chits = [k \in TrackerKeys |-> <<>>]
    /\ ccut = FALSE
    /\ cstart = {}

\* monitor_orders_loop: the exchange's orders and the monitor's pass over them
VARIABLES
    mpc,            \* "off" | "sleeping" | "confirming"
    xorders,        \* order id -> symbol, bracket, type, status, filled
    tracked_orders, \* order id -> what the monitor keeps of a seen order
    filled_ids,     \* ids of this pass that left the open orders, not looked up yet
    mreports,       \* order id -> the hit notifications sent for it, in order
    mcancels,       \* order ids the monitor sent a cancel request for
    mlook           \* order id -> how fetch_order answered, "unasked" if not called

monVars == <<mpc, xorders, tracked_orders, filled_ids, mreports, mcancels, mlook>>
OrderIds == 1..5
MonOff ==
    /\ mpc = "off"
    /\ xorders = [i \in OrderIds |-> 0]
    /\ tracked_orders = [i \in {} |-> 0]
    /\ filled_ids = {}
    /\ mreports = [i \in OrderIds |-> <<>>]
    /\ mcancels = {}
    /\ mlook = [i \in OrderIds |-> "unasked"]

\* audit_positions_loop: one pass over the open orders
VARIABLES
    apc,            \* "off" | "sleeping" | "warning" | "ended"
    alisted,        \* the open orders as fetch_open_orders returned them, by id
    missing,        \* symbol -> the leg types found among its open orders
    atodo,          \* symbols of `missing` not looked at yet
    awarned         \* symbol -> the warnings sent for it in this pass, in order

auditVars == <<apc, alisted, missing, atodo, awarned>>
AuditSymbols == {"AAA/USDT", "BBB/USDT"}
AuditOff ==
    /\ apc = "off"
    /\ alisted = {}
    /\ missing = [y \in {} |-> {}]
    /\ atodo = {}
    /\ awarned = [y \in AuditSymbols |-> <<>>]

\* the `while True: try ... except Exception` frame of the four loops
VARIABLES
    lrun,           \* loop -> "off" | "sleeping" | "calling" | "handling" | "dead"
    lsite,          \* loop -> the exchange call of the iteration it is at
    lraised         \* loop -> an exchange call raised since the iteration began

frameVars == <<lrun, lsite, lraised>>
FrameOff ==
    /\ lrun = [l \in Loops |-> "off"]
    /\ lsite = [l \in Loops |-> 0]
    /\ lraised = [l \in Loops |-> FALSE]

\* execute_market_buy on its own: the order on the exchange and the call
VARIABLES
    bpc,            \* "off" | "submit" | "polling" | "returned" | "raised"
    bpolls,         \* get_order calls that answered with a status other than FILLED
    border,         \* the market order: status, executedQty, cummulativeQuoteQty
    bresult,        \* what the call returned
    berror          \* what the call raised

buyVars == <<bpc, bpolls, border, bresult, berror>>
NoResult == [filled_qty |-> 0, price |-> 0]
NoOrder == [status |-> "none", origQty |-> 0, executedQty |-> 0, cummulativeQuoteQty |-> 0]
BuyOff ==
    /\ bpc = "off"
    /\ bpolls = 0
    /\ border = NoOrder
    /\ bresult = NoResult
    /\ berror = "none"

\* the bracket prices at submission, against the live price of that moment
VARIABLES
    kpc,            \* "off" | "ready" | "submitted"
    kby,            \* the function that submits: "pba" | "poaf"
    klast,          \* the exchange's last price
    kreq,           \* quantity and rounded prices the function holds before submitting
    ksent           \* what place_oco sent

shiftVars == <<kpc, kby, klast, kreq, ksent>>
NoReq == [qty |-> 0, tp |-> 0, sl |-> 0, sllim |-> 0]
ShiftOff ==
    /\ kpc = "off"
    /\ kby = "none"
    /\ klast = 0
    /\ kreq = NoReq
    /\ ksent = NoReq

\* the minimum-notional adjustment, for a symbol's own tick, step and minimum
VARIABLES
    npc,            \* "off" | "ready" | "sent"
    nin,            \* tick, step, min_notional and the arguments of the call
    nby,            \* which adjustment ran: "place_oco" alone or after the block
                    \* of place_bracket_atomic
    nout            \* the request that was sent

notionalVars == <<npc, nin, nby, nout>>
NotionalOff ==
    /\ npc = "off"
    /\ nin = [tick |-> 0, step |-> 0, min_notional |-> 0, quantity |-> 0,
              tp |-> 0, sl_trigger |-> 0, sl_limit |-> 0]
    /\ nby = "none"
    /\ nout = NoReq

\* the quantizers as functions: a value and a grid unit, in hundredths
VARIABLES
    qpc,            \* "off" | "ready" | "done"
    qin,            \* the value and the grid unit
    qfn,            \* the quantizer that ran
    qout            \* its result, and the result of running it on that result

quantVars == <<qpc, qin, qfn, qout>>
QuantOff ==
    /\ qpc = "off"
    /\ qin = [value |-> 0, unit |-> 1]
    /\ qfn = "none"
    /\ qout = [once |-> 0, twice |-> 0]

\* the OCO tracker as a module: the file, and the calls made on it
VARIABLES
    tfile,          \* runtime/oco_tracker.json: key -> record
    tprev,          \* the file before the last call
    tlast,          \* the last call: op, id, symbol, entry
    tlist,          \* what the list_tracked_oco call since then returned
    tlisted         \* list_tracked_oco was called since the last change

trkVars == <<tfile, tprev, tlast, tlist, tlisted>>
NoCall == [op |-> "none", id |-> 0, symbol |-> "none", entry |-> 0]
NoList == [raised |-> FALSE, map |-> [i \in {} |-> 0]]
TrkOff ==
    /\ tfile = [k \in {} |-> 0]
    /\ tprev = [k \in {} |-> 0]
    /\ tlast = NoCall
    /\ tlist = NoList
    /\ tlisted = FALSE

\* a notification point: the caller, Notifier.send, and what the caller does next
VARIABLES
    spc,            \* "off" | "at_call" | "sending" | "returned" | "resumed"
    nsite,          \* the notification point
    ntry,           \* 0 for the cached-entity send, then the fallbacks
    ncache,         \* Notifier._entity_cache is set
    ndelivered,     \* some send_message of this call returned
    nraised,        \* Notifier.send let an exception reach the caller
    nbefore,        \* the tracker when the caller reached the point
    noutcome        \* how the caller went on

ntfVars == <<spc, nsite, ntry, ncache, ndelivered, nraised, nbefore, noutcome>>
NtfOff ==
    /\ spc = "off"
    /\ nsite = "none"
    /\ ntry = 0
    /\ ncache = FALSE
    /\ ndelivered = FALSE
    /\ nraised = FALSE
    /\ nbefore = [k \in {} |-> 0]
    /\ noutcome = "none"

\* on_signal from the hand-off of the signal to the first order
VARIABLES
    gpc,            \* the gate the run is at
    gsig,           \* the fields of the ParsedSignal object
    ghanded,        \* its fields when on_signal was called
    gcfg,           \* SETTINGS: dry_run, use_limit_if_slippage_exceeds, market_cap_filter_enabled
    gfacts,         \* what the run has found so far
    gend,           \* "running" | the gate that returned | "live" | "raised"
    gsent,          \* order requests sent to the exchange
    gbefore         \* the tracker when on_signal was called

gateVars == <<gpc, gsig, ghanded, gcfg, gfacts, gend, gsent, gbefore>>
NoStop == -1
Unknown == -1
NoFacts == [pair_found |-> TRUE, cap_ok |-> TRUE, dup |-> FALSE,
            spend |-> Unknown, last |-> Unknown, amount |-> Unknown]
GateOff ==
    /\ gpc = "off"
    /\ gsig = [entry |-> 0, stop |-> NoStop, tp1 |-> 0]
    /\ ghanded = [entry |-> 0, stop |-> NoStop, tp1 |-> 0]
    /\ gcfg = [dry_run |-> FALSE, use_limit |-> FALSE, cap_filter |-> FALSE]
    /\ gfacts = NoFacts
    /\ gend = "running"
    /\ gsent = {}
    /\ gbefore = [k \in {} |-> 0]

\* one on_signal run and the flatten watchdog on the same asset
VARIABLES
    rpath,          \* "limit" | "trailing" | "bracket" | "override"
    rpc,            \* position of the run
    rfree,          \* exchange: free balance of the base asset
    rorders,        \* exchange: types of the open orders on the symbol
    rheld,          \* exchange: quantity of the base asset locked in sell orders
    rdog,           \* watchdog: "idle" | "notify" (flatten decided, awaiting the send)
    rdq,            \* watchdog: qty it read for the asset
    rsoldAt         \* positions of the run at which the watchdog market-sold

raceVars == <<rpath, rpc, rfree, rorders, rheld, rdog, rdq, rsoldAt>>
RaceOff ==
    /\ rpath = "none"
    /\ rpc = "off"
    /\ rfree = 0
    /\ rorders = {}
    /\ rheld = 0
    /\ rdog = "idle"
    /\ rdq = 0
    /\ rsoldAt = {}

\* tracked brackets seen by the fill monitor and by the outcome classifier
VARIABLES
    hfilled,        \* exchange: bracket -> the leg that filled, or "none"
    hopen,          \* exchange: bracket -> its legs that are open orders
    hmtracked,      \* fill monitor: bracket -> legs in tracked_orders
    htracker,       \* brackets in the OCO tracker
    hnotes,         \* bracket -> loops that sent a hit notification, in order
    hevents         \* bracket -> loops that emitted order_filled, in order

hitVars == <<hfilled, hopen, hmtracked, htracker, hnotes, hevents>>
HitOff ==
    /\ hfilled = <<>>
    /\ hopen = <<>>
    /\ hmtracked = <<>>
    /\ htracker = {}
    /\ hnotes = <<>>
    /\ hevents = <<>>

\* two tasks of the event loop changing the tracker file
VARIABLES
    ufile,          \* runtime/oco_tracker.json: key -> stored "entry"
    utodo,          \* task -> the ids it has still to track or untrack, in order
    upc,            \* task -> "await" | "read" (d read, not yet written)
    ulocal,         \* task -> the dict d it read
    uloop,          \* the task the event loop is running, or "none"
    udone           \* task -> the ids whose call has returned

rmwVars == <<ufile, utodo, upc, ulocal, uloop, udone>>
RmwOff ==
    /\ ufile = [k \in {} |-> 0]
    /\ utodo = <<>>
    /\ upc = <<>>
    /\ ulocal = <<>>
    /\ uloop = "none"
    /\ udone = <<>>

\* watchdog.monitor, the health monitor process
VARIABLES
    hpc,                 \* position in the cycle
    backend_misses,
    last_backend_state,  \* "None" | "backend_ok" | "backend_down"
    last_ui_server_state,\* "None" | "up" | "down"
    hstate,              \* the debounced backend state of this cycle
    hprev,               \* the debounced backend state of the cycle before
    hstatus,             \* status.json: what the last update_status wrote
    hwritten,            \* update_status wrote the backend state in this cycle
    halerts              \* backend alerts sent in this cycle

healthVars == <<hpc, backend_misses, last_backend_state, last_ui_server_state,
                hstate, hprev, hstatus, hwritten, halerts>>
HealthOff ==
    /\ hpc = "off"
    /\ backend_misses = 0
    /\ last_backend_state = "None"
    /\ last_ui_server_state = "None"
    /\ hstate = "none"
    /\ hprev = "none"
    /\ hstatus = "none"
    /\ hwritten = FALSE
    /\ halerts = 0

restVars == <<watchVars, dupVars, loopVars, dogVars, clsVars, monVars, auditVars, frameVars, buyVars, shiftVars, notionalVars, quantVars, trkVars, ntfVars, gateVars, raceVars, hitVars, rmwVars, healthVars>>
outsideWatch == <<orderVars, dupVars, loopVars, dogVars, clsVars, monVars, auditVars, frameVars, buyVars, shiftVars, notionalVars, quantVars, trkVars, ntfVars, gateVars, raceVars, hitVars, rmwVars, healthVars>>
outsideDup == <<orderVars, watchVars, loopVars, dogVars, clsVars, monVars, auditVars, frameVars, buyVars, shiftVars, notionalVars, quantVars, trkVars, ntfVars, gateVars, raceVars, hitVars, rmwVars, healthVars>>
outsideLoop == <<orderVars, watchVars, dupVars, dogVars, clsVars, monVars, auditVars, frameVars, buyVars, shiftVars, notionalVars, quantVars, trkVars, ntfVars, gateVars, raceVars, hitVars, rmwVars, healthVars>>
outsideDog == <<orderVars, watchVars, dupVars, loopVars, clsVars, monVars, auditVars, frameVars, buyVars, shiftVars, notionalVars, quantVars, trkVars, ntfVars, gateVars, raceVars, hitVars, rmwVars, healthVars>>
outsideCls == <<cfgVars, pc, localVars, outVars, position, sells, ocoLog, liveOco,
                verified, stopOrder, entryVars, watchVars, dupVars, loopVars, dogVars, monVars, auditVars, frameVars, buyVars, shiftVars, notionalVars, quantVars, trkVars, ntfVars, gateVars, raceVars, hitVars, rmwVars, healthVars>>
outsideMon == <<orderVars, watchVars, dupVars, loopVars, dogVars, clsVars, auditVars, frameVars, buyVars, shiftVars, notionalVars, quantVars, trkVars, ntfVars, gateVars, raceVars, hitVars, rmwVars, healthVars>>
outsideAudit == <<orderVars, watchVars, dupVars, loopVars, dogVars, clsVars, monVars, frameVars, buyVars, shiftVars, notionalVars, quantVars, trkVars, ntfVars, gateVars, raceVars, hitVars, rmwVars, healthVars>>
outsideFrame == <<orderVars, watchVars, dupVars, loopVars, dogVars, clsVars, monVars, auditVars, buyVars, shiftVars, notionalVars, quantVars, trkVars, ntfVars, gateVars, raceVars, hitVars, rmwVars, healthVars>>
outsideBuy == <<orderVars, watchVars, dupVars, loopVars, dogVars, clsVars, monVars, auditVars, frameVars, shiftVars, notionalVars, quantVars, trkVars, ntfVars, gateVars, raceVars, hitVars, rmwVars, healthVars>>
outsideShift == <<orderVars, watchVars, dupVars, loopVars, dogVars, clsVars, monVars, auditVars, frameVars, buyVars, notionalVars, quantVars, trkVars, ntfVars, gateVars, raceVars, hitVars, rmwVars, healthVars>>
outsideNotional == <<orderVars, watchVars, dupVars, loopVars, dogVars, clsVars, monVars, auditVars, frameVars, buyVars, shiftVars, quantVars, trkVars, ntfVars, gateVars, raceVars, hitVars, rmwVars, healthVars>>
outsideQuant == <<orderVars, watchVars, dupVars, loopVars, dogVars, clsVars, monVars, auditVars, frameVars, buyVars, shiftVars, notionalVars, trkVars, ntfVars, gateVars, raceVars, hitVars, rmwVars, healthVars>>
outsideTrk == <<orderVars, watchVars, dupVars, loopVars, dogVars, clsVars, monVars, auditVars, frameVars, buyVars, shiftVars, notionalVars, quantVars, ntfVars, gateVars, raceVars, hitVars, rmwVars, healthVars>>
outsideNtf == <<cfgVars, pc, localVars, outVars, position, sells, ocoLog, liveOco,
                verified, stopOrder, entryVars, watchVars, dupVars, loopVars, dogVars, clsVars, monVars, auditVars, frameVars, buyVars, shiftVars, notionalVars, quantVars, trkVars, gateVars, raceVars, hitVars, rmwVars, healthVars>>
outsideGate == <<cfgVars, pc, localVars, outVars, position, sells, ocoLog, liveOco,
                verified, stopOrder, entryVars, watchVars, dupVars, loopVars, dogVars, clsVars, monVars, auditVars, frameVars, buyVars, shiftVars, notionalVars, quantVars, trkVars, ntfVars, raceVars, hitVars, rmwVars, healthVars>>
outsideRace == <<orderVars, watchVars, dupVars, loopVars, dogVars, clsVars, monVars, auditVars, frameVars, buyVars, shiftVars, notionalVars, quantVars, trkVars, ntfVars, gateVars, hitVars, rmwVars, healthVars>>
outsideHit == <<orderVars, watchVars, dupVars, loopVars, dogVars, clsVars, monVars, auditVars, frameVars, buyVars, shiftVars, notionalVars, quantVars, trkVars, ntfVars, gateVars, raceVars, rmwVars, healthVars>>
outsideRmw == <<orderVars, watchVars, dupVars, loopVars, dogVars, clsVars, monVars, auditVars, frameVars, buyVars, shiftVars, notionalVars, quantVars, trkVars, ntfVars, gateVars, raceVars, hitVars, healthVars>>
outsideHealth == <<orderVars, watchVars, dupVars, loopVars, dogVars, clsVars, monVars, auditVars, frameVars, buyVars, shiftVars, notionalVars, quantVars, trkVars, ntfVars, gateVars, raceVars, hitVars, rmwVars>>
vars == <<orderVars, restVars>>

\* no "BUY filled" notification
NoNote == [sent |-> FALSE]

\* track_oco: d[str(oco_id)] = {"symbol", "ts", "entry": entry_price}
TrackOco(tr, id, entry) ==
    [k \in DOMAIN tr \cup {id} |-> IF k = id THEN entry ELSE tr[k]]

NoErr == [stage |-> "none", says_flattened |-> FALSE, reports_flatten_failure |-> FALSE]

SettingsSet ==
    [override_tp_enabled : BOOLEAN,
     override_sl_enabled : BOOLEAN,
     override_sl_as_absolute : BOOLEAN,
     exit_mode : {"fixed_oco", "trailing_tp"}]

Init ==
    /\ impl \in Impls
    /\ s \in {x \in SettingsSet : x.override_sl_as_absolute => x.override_sl_enabled}
    /\ sig \in [tp1 : SignalTps, stop : SignalStops]
    /\ acceptable \in BOOLEAN
    /\ pc = "sig_entry"
    /\ polls = 0
    /\ filled_qty = 0
    /\ avg_price = 0
    /\ tp_r = 0
    /\ sl_tr_r = 0
    /\ sl_lim_r = 0
    /\ waited = 0
    /\ free_balance = 0
    /\ safe_qty = 0
    /\ attempt = 0
    /\ oco_id = "unbound"
    /\ step_bound = FALSE
    /\ res_oco_id = "None"
    /\ pbaOutcome = "none"
    /\ pbaErr = NoErr
    /\ sigOutcome = "running"
    /\ position = 0
    /\ sells = <<>>
    /\ ocoLog = <<>>
    /\ liveOco = {}
    /\ verified = FALSE
    /\ stopOrder = FALSE
    /\ tracker = [k \in {} |-> 0]
    /\ executed = 0
    /\ resting = FALSE
    /\ notified = NoNote
    /\ WatchOff
    /\ DupOff
    /\ LoopOff
    /\ DogOff
    /\ ClsOff
    /\ HealthOff
    /\ RmwOff
    /\ HitOff
    /\ RaceOff
    /\ GateOff
    /\ NtfOff
    /\ TrkOff
    /\ QuantOff
    /\ NotionalOff
    /\ ShiftOff
    /\ BuyOff
    /\ FrameOff
    /\ AuditOff
    /\ MonOff

\* on_signal before its execution block, for one fixed signal and the default
\* settings: the state of the order flow while another component is looked at
OrderIdle ==
    /\ impl \in Impls
    /\ s = [override_tp_enabled |-> FALSE, override_sl_enabled |-> FALSE,
            override_sl_as_absolute |-> FALSE, exit_mode |-> "fixed_oco"]
    /\ sig = [tp1 |-> 102, stop |-> 90]
    /\ acceptable = TRUE
    /\ pc = "sig_entry"
    /\ polls = 0 /\ filled_qty = 0 /\ avg_price = 0
    /\ tp_r = 0 /\ sl_tr_r = 0 /\ sl_lim_r = 0 /\ waited = 0
    /\ free_balance = 0 /\ safe_qty = 0
    /\ attempt = 0 /\ oco_id = "unbound" /\ step_bound = FALSE
    /\ res_oco_id = "None" /\ pbaOutcome = "none" /\ pbaErr = NoErr
    /\ sigOutcome = "running" /\ position = 0
    /\ sells = <<>> /\ ocoLog = <<>> /\ liveOco = {} /\ verified = FALSE
    /\ stopOrder = FALSE
    /\ executed = 0
    /\ resting = FALSE
    /\ notified = NoNote

OrderFresh ==
    /\ OrderIdle
    /\ tracker = [k \in {} |-> 0]

\* ------------------------------------------------- which branch on_signal takes
LimitEntry == ~acceptable
NeedsOverride == s.override_tp_enabled \/ s.override_sl_enabled
Trailing == s.exit_mode = "trailing_tp"
UsesBracket == ~LimitEntry /\ ~NeedsOverride /\ ~Trailing


\* --------------------------------------------------------------- raising
\* on_signal: except Exception as e -> notify, emit, log_error; nothing else
SigHandled ==
    /\ pc' = "sig_done"
    /\ sigOutcome' = "failed"

\* tp_r > avg_price > sl_tr_r
PriceRelationOkTpOnly(tp, avg, sl) == tp > avg
PriceRelationOk(tp, avg, sl) == tp > avg /\ avg > sl

\* ------------------------------------------------------ execute_limit_buy
\* executedQty an order that executed only in part can show
PartialQtys == {2}
\* what the exchange can have executed of an order that had executed e
EntryProgress(e) == {q \in {0} \cup PartialQtys \cup FillQtys : q >= e}

\* up to order_limit_buy and on_placed
LimitBuySubmit ==
    /\ pc = "sig_entry"
    /\ LimitEntry
    /\ \/ \* _get_tick_and_step or order_limit_buy raised
          /\ SigHandled
          /\ UNCHANGED resting
       \/ /\ resting' = TRUE
          /\ pc' = "limit_poll"
          /\ UNCHANGED sigOutcome
    /\ UNCHANGED <<cfgVars, restVars, notified, localVars, pbaOutcome, pbaErr, exVars, executed>>

\* one pass of "while time.time() < deadline", or leaving the loop
LimitBuyPoll ==
    /\ pc = "limit_poll"
    /\ \/ \* the deadline has passed
          /\ pc' = "limit_cancel"
          /\ UNCHANGED <<filled_qty, avg_price, position, executed, resting, sigOutcome>>
       \/ \* get_order raised
          /\ SigHandled
          /\ UNCHANGED <<filled_qty, avg_price, position, executed, resting>>
       \/ \* status == "FILLED"
          \E q \in FillQtys, p \in FillPrices :
            /\ filled_qty' = q
            /\ avg_price' = p
            /\ position' = q
            /\ executed' = q
            /\ resting' = FALSE
            /\ pc' = "sig_post"
            /\ UNCHANGED sigOutcome
       \/ \* status in ("CANCELED", "REJECTED", "EXPIRED"): (None, None, oid)
          /\ resting' = FALSE
          /\ pc' = "sig_done"
          /\ sigOutcome' = "limit_cancel"
          /\ UNCHANGED <<filled_qty, avg_price, position, executed>>
       \/ \* NEW or PARTIALLY_FILLED: sleep
          /\ executed' \in {q \in EntryProgress(executed) : q \notin FillQtys}
          /\ UNCHANGED <<pc, filled_qty, avg_price, position, resting, sigOutcome>>
    /\ UNCHANGED <<cfgVars, restVars, notified, polls, tp_r, sl_tr_r, sl_lim_r, waited,
                   free_balance, safe_qty, attempt, oco_id, step_bound, res_oco_id,
                   pbaOutcome, pbaErr, sells, ocoLog, liveOco, verified, stopOrder,
                   tracker>>

\* "not filled in time -> cancel", then return (None, None, oid); on_signal
\* sends "LIMIT order canceled (not filled)" and returns
LimitBuyCancel ==
    /\ pc = "limit_cancel"
    /\ \/ \* cancel_order succeeded
          /\ resting' = FALSE
          /\ UNCHANGED executed
       \/ \* cancel_order raised, the order having filled in the meantime
          /\ resting' = FALSE
          /\ executed' \in {q \in EntryProgress(executed) : q \in FillQtys}
       \/ \* cancel_order raised without reaching the order: "cancel failed"
          /\ UNCHANGED <<resting, executed>>
    /\ pc' = "sig_done"
    /\ sigOutcome' = "limit_cancel"
    /\ UNCHANGED <<cfgVars, restVars, notified, localVars, pbaOutcome, pbaErr, exVars>>

\* ----------------------------------------------------- execute_market_buy
\* an exception leaving execute_market_buy: place_bracket_atomic wraps it
\* in "Market buy failed"; on_signal's handler receives it either way
BuyFailed ==
    /\ SigHandled
    /\ IF UsesBracket
       THEN /\ pbaOutcome' = "raised"
            /\ pbaErr' = [stage |-> "entry", says_flattened |-> FALSE,
                          reports_flatten_failure |-> FALSE]
       ELSE UNCHANGED <<pbaOutcome, pbaErr>>

\* place_bracket_atomic up to the call of execute_market_buy
PbaStart ==
    /\ pc = "sig_entry"
    /\ UsesBracket
    /\ \/ \* _get_tick_and_step or get_symbol_ticker raised, outside any try
          /\ SigHandled
          /\ pbaOutcome' = "raised"
          /\ pbaErr' = [stage |-> "setup", says_flattened |-> FALSE,
                        reports_flatten_failure |-> FALSE]
       \/ /\ pc' = "buy_submit"
          /\ UNCHANGED <<sigOutcome, pbaOutcome, pbaErr>>
    /\ UNCHANGED <<cfgVars, entryVars, restVars, localVars, exVars>>

MarketBuySubmit ==
    /\ \/ pc = "buy_submit"
       \/ pc = "sig_entry" /\ ~LimitEntry /\ ~UsesBracket
    /\ \/ \* ticker, symbol info or order_market_buy raised
          BuyFailed
       \/ /\ pc' = "buy_poll"
          /\ UNCHANGED <<sigOutcome, pbaOutcome, pbaErr>>
    /\ polls' = 0
    /\ UNCHANGED <<cfgVars, entryVars, restVars, filled_qty, avg_price, tp_r, sl_tr_r,
                   sl_lim_r, waited, free_balance, safe_qty, attempt, oco_id,
                   step_bound, res_oco_id, exVars>>

\* one pass of "for i in range(20)"; the market order the exchange took
\* executes whatever get_order shows of it
MarketBuyPoll ==
    /\ pc = "buy_poll"
    /\ \/ \* get_order raised
          /\ BuyFailed
          /\ executed' \in EntryProgress(executed)
          /\ UNCHANGED <<polls, filled_qty, avg_price, position>>
       \/ \* status == "FILLED"
          \E q \in FillQtys, p \in FillPrices :
            /\ filled_qty' = q
            /\ avg_price' = p
            /\ position' = q
            /\ executed' = q
            /\ pc' = IF UsesBracket THEN "pba_validate" ELSE "sig_post"
            /\ polls' = 0   \* the loop index ends with the call
            /\ UNCHANGED <<sigOutcome, pbaOutcome, pbaErr>>
       \/ \* any other status: sleep, next poll, or "not filled in time"
          /\ polls' = polls + 1
          /\ executed' \in {q \in EntryProgress(executed) : q \notin FillQtys}
          /\ IF polls + 1 >= MarketBuyPolls
             THEN BuyFailed
             ELSE UNCHANGED <<pc, sigOutcome, pbaOutcome, pbaErr>>
          /\ UNCHANGED <<filled_qty, avg_price, position>>
    /\ UNCHANGED <<cfgVars, restVars, notified, resting, tp_r, sl_tr_r, sl_lim_r, waited,
                   free_balance, safe_qty, attempt, oco_id, step_bound, res_oco_id,
                   sells, ocoLog, liveOco, verified, stopOrder, tracker>>

\* --------------------------------------------------- place_bracket_atomic
\* rounding and the two validations after the fill, each with its flatten
PbaValidate ==
    /\ pc = "pba_validate"
    /\ LET tp == round_tick(sig.tp1, TickSize)
           sl == round_tick(sig.stop, TickSize)
           lim == SlLimitOf(sig.stop)
           bad_rel == ~PriceRelationOk(tp, avg_price, sl)
           bad_sl == lim >= sl
       IN  /\ tp_r' = tp
           /\ sl_tr_r' = sl
           /\ sl_lim_r' = lim
           /\ IF bad_rel \/ bad_sl
              THEN \E ok \in BOOLEAN :
                     \* market_sell(symbol, filled_qty); its exception is passed over
                     /\ sells' = Append(sells, [qty |-> filled_qty, ok |-> ok])
                     /\ pbaOutcome' = "raised"
                     /\ pbaErr' = [stage |-> IF bad_rel THEN "validation" ELSE "sl_prices",
                                   says_flattened |-> TRUE,
                                   reports_flatten_failure |-> FALSE]
                     /\ SigHandled
              ELSE /\ pc' = "pba_balance"
                   /\ UNCHANGED <<sells, pbaOutcome, pbaErr, sigOutcome>>
    /\ waited' = 0
    /\ free_balance' = 0
    /\ UNCHANGED <<cfgVars, entryVars, restVars, polls, filled_qty, avg_price, safe_qty, attempt, oco_id,
                   step_bound, res_oco_id, position, ocoLog, liveOco, verified,
                   stopOrder, tracker>>

\* total_balance >= filled_qty * 0.95
Settled(free, locked, filled) == (free + locked) * 100 >= filled * 95

\* one pass of "while waited < max_wait_s"; `waited` is not read after the
\* loop and is cleared when the loop is left
PbaBalancePoll ==
    /\ pc = "pba_balance"
    /\ waited < BalanceWaitPolls
    /\ \/ \* get_asset_balance raised: [BALANCE WARN], sleep
          /\ waited' = IF waited + 1 >= BalanceWaitPolls THEN 0 ELSE waited + 1
          /\ pc' = IF waited + 1 >= BalanceWaitPolls THEN "pba_prepare" ELSE "pba_balance"
          /\ UNCHANGED free_balance
       \/ \E free \in Balances, locked \in Balances :
            /\ free_balance' = free
            /\ IF Settled(free, locked, filled_qty)
               THEN /\ pc' = "pba_prepare"
                    /\ waited' = 0
               ELSE /\ waited' = IF waited + 1 >= BalanceWaitPolls THEN 0 ELSE waited + 1
                    /\ pc' = IF waited + 1 >= BalanceWaitPolls
                             THEN "pba_prepare" ELSE "pba_balance"
    /\ UNCHANGED <<cfgVars, entryVars, restVars, polls, filled_qty, avg_price, tp_r, sl_tr_r, sl_lim_r,
                   safe_qty, attempt, oco_id, step_bound, res_oco_id, outVars, exVars>>

\* except Exception as e, hard branch: raise "OCO placement failed"
PbaHardFailure ==
    /\ pbaOutcome' = "raised"
    /\ pbaErr' = [stage |-> "oco", says_flattened |-> FALSE,
                  reports_flatten_failure |-> FALSE]
    /\ SigHandled
    /\ UNCHANGED <<tracker, res_oco_id>>

\* except Exception as e, soft branch: track_oco(symbol, oco_id, avg_price)
\* with whatever oco_id holds, then return the result dict
PbaSoftReturn(id) ==
    /\ \/ /\ id # "unbound"
          /\ tracker' = TrackOco(tracker, id, avg_price)
       \/ \* NameError on the unbound local, or track_oco raised
          UNCHANGED tracker
    /\ res_oco_id' = IF id = "unbound" THEN "None" ELSE id
    /\ pbaOutcome' = "returned"
    /\ pc' = "sig_post"
    /\ UNCHANGED <<pbaErr, sigOutcome>>

PbaHandler(kind, id) ==
    IF IsSoft(kind) THEN PbaSoftReturn(id) ELSE PbaHardFailure

\* safe quantity, live price sanity, oco_id = None
PbaPrepare ==
    /\ pc = "pba_prepare"
    /\ LET q == SafeQty(free_balance, filled_qty)
       IN  \/ \* _get_tick_and_step raised
              /\ PbaHandler("other", "unbound")
              /\ UNCHANGED <<safe_qty, tp_r, sl_tr_r, sl_lim_r, oco_id, attempt>>
           \/ \* dust, or get_symbol_ticker raised
              /\ safe_qty' = q
              /\ PbaHandler("other", "unbound")
              /\ UNCHANGED <<tp_r, sl_tr_r, sl_lim_r, oco_id, attempt>>
           \/ /\ q >= StepSize
              /\ \E last_now \in LivePrices :
                   LET sl_new == IF last_now <= sl_tr_r
                                 THEN round_tick(last_now - TickSize, TickSize)
                                 ELSE sl_tr_r
                   IN  /\ sl_tr_r' = sl_new
                       /\ sl_lim_r' = IF last_now <= sl_tr_r
                                      THEN SlLimitOf(sl_new) ELSE sl_lim_r
                       /\ tp_r' = IF last_now >= tp_r
                                  THEN round_tick(last_now + TickSize, TickSize)
                                  ELSE tp_r
              /\ safe_qty' = q
              /\ oco_id' = "None"
              /\ attempt' = 0
              /\ pc' = "pba_attempt"
              /\ UNCHANGED <<outVars, tracker, res_oco_id>>
    /\ UNCHANGED <<cfgVars, entryVars, restVars, polls, filled_qty, avg_price, waited, free_balance,
                   step_bound, position, sells, ocoLog, liveOco, verified, stopOrder>>


\* what the exchange received, with what the caller knew when it sent it
LogEntry(by, req, result) ==
    [by |-> by, qty |-> req.qty, tp |-> req.tp, sl |-> req.sl, sllim |-> req.sllim,
     fill |-> avg_price, filled |-> filled_qty, free |-> free_balance,
     result |-> result]

\* the exchange's side of an OCO request: "accepted" and "no_id" are HTTP 200
ExchangeTakes(result) == IF result \in {"accepted", "no_id"} THEN {IssuedId} ELSE {}

\* one pass of "for attempt in range(3)", its except clause included
PbaAttempt ==
    /\ pc = "pba_attempt"
    /\ \E info1 \in BOOLEAN :
         LET q1 == IF info1 THEN PbaNotionalQty(safe_qty, tp_r, sl_tr_r) ELSE safe_qty
             req == PlaceOco(q1, tp_r, sl_tr_r, sl_lim_r)
         IN  \/ \* place_oco: _get_symbol_info raised, nothing sent
                /\ safe_qty' = q1
                /\ PbaHandler("other", "None")
                /\ UNCHANGED <<ocoLog, liveOco, oco_id, attempt, free_balance>>
             \/ \* sent, HTTP 200 with an orderListId
                /\ safe_qty' = q1
                /\ ocoLog' = Append(ocoLog, LogEntry("pba", req, "accepted"))
                /\ liveOco' = liveOco \cup ExchangeTakes("accepted")
                /\ oco_id' = IssuedId
                /\ pc' = "pba_verify"
                /\ UNCHANGED <<attempt, free_balance, outVars, tracker, res_oco_id>>
             \/ \* sent, HTTP 200 without an orderListId
                /\ safe_qty' = q1
                /\ ocoLog' = Append(ocoLog, LogEntry("pba", req, "no_id"))
                /\ liveOco' = liveOco \cup ExchangeTakes("no_id")
                /\ PbaHandler("missing_id", "None")
                /\ UNCHANGED <<oco_id, attempt, free_balance>>
             \/ \* sent and rejected
                \E kind \in Rejections :
                  /\ ocoLog' = Append(ocoLog, LogEntry("pba", req, kind))
                  /\ UNCHANGED <<liveOco, oco_id>>
                  /\ IF IsInsufficient(kind) /\ attempt < OcoAttempts - 1
                     THEN \/ \* get_asset_balance raised: pass, raise
                             /\ safe_qty' = q1
                             /\ PbaHandler(kind, "None")
                             /\ UNCHANGED <<attempt, free_balance>>
                          \/ \E free \in Balances :
                               /\ free_balance' = free
                               /\ IF SafeQty(free, filled_qty) >= StepSize
                                  THEN /\ safe_qty' = SafeQty(free, filled_qty)
                                       /\ attempt' = attempt + 1
                                       /\ UNCHANGED <<pc, outVars, tracker, res_oco_id>>
                                  ELSE /\ safe_qty' = SafeQty(free, filled_qty)
                                       /\ PbaHandler(kind, "None")
                                       /\ UNCHANGED attempt
                     ELSE /\ safe_qty' = q1
                          /\ PbaHandler(kind, "None")
                          /\ UNCHANGED <<attempt, free_balance>>
    /\ UNCHANGED <<cfgVars, entryVars, restVars, polls, filled_qty, avg_price, tp_r, sl_tr_r, sl_lim_r,
                   waited, step_bound, position, sells, verified, stopOrder>>

\* verify_oco with a timeout read as "no bracket": the result carries no id
PbaVerifyDropsId ==
    /\ pc = "pba_verify"
    /\ \/ /\ verified' = FALSE
          /\ res_oco_id' = "None"
          /\ UNCHANGED tracker
       \/ /\ verified' = TRUE
          /\ res_oco_id' = oco_id
          /\ \/ tracker' = TrackOco(tracker, oco_id, avg_price)
             \/ UNCHANGED tracker
    /\ pbaOutcome' = "returned"
    /\ pc' = "sig_post"
    /\ UNCHANGED <<cfgVars, entryVars, restVars, polls, filled_qty, avg_price, tp_r, sl_tr_r, sl_lim_r,
                   waited, free_balance, safe_qty, attempt, oco_id, step_bound,
                   pbaErr, sigOutcome, position, sells, ocoLog, liveOco, stopOrder>>

\* verify_oco, then track_oco and the normal return
PbaVerify ==
    /\ pc = "pba_verify"
    /\ \/ \* verification timed out: return without tracking
          /\ verified' = FALSE
          /\ UNCHANGED tracker
       \/ /\ verified' = TRUE
          /\ \/ tracker' = TrackOco(tracker, oco_id, avg_price)
             \/ \* track_oco raised: [OCO TRACK WARN]
                UNCHANGED tracker
    /\ res_oco_id' = oco_id
    /\ pbaOutcome' = "returned"
    /\ pc' = "sig_post"
    /\ UNCHANGED <<cfgVars, entryVars, restVars, polls, filled_qty, avg_price, tp_r, sl_tr_r, sl_lim_r,
                   waited, free_balance, safe_qty, attempt, oco_id, step_bound,
                   pbaErr, sigOutcome, position, sells, ocoLog, liveOco, stopOrder>>

\* ------------------------------------------- on_signal, post-entry logic
\* override_sl_pct read as a price distance (override_sl_as_absolute)
OverrideSlAbs == 1

\* final_tp, final_sl of on_signal for the fill price
FinalTp ==
    IF s.override_tp_enabled
    THEN Round8(avg_price * (100 + OverrideTpPct), 100)
    ELSE sig.tp1
FinalSl ==
    IF s.override_sl_enabled
    THEN IF s.override_sl_as_absolute
         THEN avg_price - OverrideSlAbs
         ELSE Round8(avg_price * (100 - OverrideSlPct), 100)
    ELSE sig.stop
\* final_sl_limit = round(final_sl * 0.9999, 8)
FinalSlLimit == Round8(FinalSl * 9999, 10000)

\* place_stop_loss_market_sell: the exchange takes a stop order only for a
\* quantity of at least one lot step
StopAccepted(qty, ok) == ok /\ qty >= StepSize

\* "BUY filled ... Override applied": quantity, fill, TP, SL and OCO ID
OverrideNote(qty, id) ==
    [sent |-> TRUE, fill |-> avg_price, qty |-> qty, tp |-> FinalTp, sl |-> FinalSl,
     has_sllim |-> FALSE, sllim |-> 0, id |-> id]

\* "BUY filled ... OCO set": res["tp"] and res["sl_trigger"] are the signal's
\* prices after a limit entry and the rounded ones place_bracket_atomic
\* returned otherwise; res["sl_limit"] comes from whichever placed the OCO
StandardNote ==
    [sent |-> TRUE, fill |-> avg_price, qty |-> filled_qty,
     tp |-> IF LimitEntry THEN sig.tp1 ELSE tp_r,
     sl |-> IF LimitEntry THEN sig.stop ELSE sl_tr_r,
     has_sllim |-> TRUE, sllim |-> sl_lim_r, id |-> res_oco_id]

\* exit_mode == "trailing_tp": fixed stop-loss, then the watcher task
SigTrailing ==
    /\ pc = "sig_post"
    /\ Trailing
    /\ \/ \* get_asset_balance or _get_tick_and_step raised in get_safe_sell_qty
          /\ SigHandled
          /\ UNCHANGED <<free_balance, safe_qty, stopOrder>>
       \/ \E free \in Balances, ok \in BOOLEAN :
            LET q == SafeQty(free, filled_qty)
            IN  /\ free_balance' = free
                /\ safe_qty' = q
                /\ IF impl = "signal_trader" /\ q <= 0
                   THEN \* "Safe qty is 0; cannot place protection."
                        /\ SigHandled
                        /\ UNCHANGED stopOrder
                   ELSE IF StopAccepted(q, ok)
                        THEN /\ stopOrder' = TRUE
                             /\ pc' = "sig_done"
                             /\ sigOutcome' = "trailing_started"
                        ELSE /\ SigHandled
                             /\ UNCHANGED stopOrder
    /\ UNCHANGED <<cfgVars, entryVars, restVars, polls, filled_qty, avg_price, tp_r, sl_tr_r, sl_lim_r,
                   waited, attempt, oco_id, step_bound, res_oco_id, pbaOutcome, pbaErr,
                   position, sells, ocoLog, liveOco, verified, tracker>>

\* trader_core.py, "Override Mode": one place_oco, then track_oco
SigOverrideCore ==
    /\ pc = "sig_post"
    /\ ~Trailing
    /\ NeedsOverride
    /\ impl = "trader_core"
    /\ \/ \* get_asset_balance or _get_tick_and_step raised
          /\ SigHandled
          /\ UNCHANGED <<free_balance, safe_qty, ocoLog, liveOco, oco_id, tracker,
                         notified>>
       \/ \E free \in Balances :
            LET q == SafeQty(free, filled_qty)
                req == PlaceOco(q, FinalTp, FinalSl, FinalSlLimit)
                entry(r) == [LogEntry("override", req, r) EXCEPT !.free = free]
            IN  /\ free_balance' = free
                /\ safe_qty' = q
                /\ \/ \* place_oco: _get_symbol_info raised
                      /\ SigHandled
                      /\ UNCHANGED <<ocoLog, liveOco, oco_id, tracker, notified>>
                   \/ \E kind \in Rejections :
                        /\ ocoLog' = Append(ocoLog, entry(kind))
                        /\ SigHandled
                        /\ UNCHANGED <<liveOco, oco_id, tracker, notified>>
                   \/ \E r \in {"accepted", "no_id"} :
                        /\ ocoLog' = Append(ocoLog, entry(r))
                        /\ liveOco' = liveOco \cup ExchangeTakes(r)
                        /\ oco_id' = IF r = "accepted" THEN IssuedId ELSE "None"
                        /\ \/ \* ts.track_oco(symbol, new_oco_id, actual_fill_price),
                              \* then the "Override applied" message
                              /\ tracker' = TrackOco(tracker, oco_id', avg_price)
                              /\ notified' = OverrideNote(q, oco_id')
                              /\ pc' = "sig_done"
                              /\ sigOutcome' = "oco_overridden"
                           \/ \* track_oco raised
                              /\ SigHandled
                              /\ UNCHANGED <<tracker, notified>>
    /\ UNCHANGED <<cfgVars, executed, resting, restVars, polls, filled_qty, avg_price, tp_r, sl_tr_r, sl_lim_r,
                   waited, attempt, step_bound, res_oco_id, pbaOutcome, pbaErr,
                   position, sells, verified, stopOrder>>

\* signal_trader.py, Step C: free balance floored to the step, or the
\* fallback filled_qty * 0.999 (as _fmt and q_dec then see it)
SigOverridePrepare ==
    /\ pc = "sig_post"
    /\ ~Trailing
    /\ NeedsOverride
    /\ impl = "signal_trader"
    /\ \/ \E free \in Balances :
            /\ free_balance' = free
            /\ safe_qty' = round_step(Min(free, filled_qty), StepSize)
            /\ step_bound' = TRUE
       \/ \* get_asset_balance or _get_tick_and_step raised: fallback
          /\ safe_qty' = FloorFrac(filled_qty * 999, 1000, 1)
          /\ UNCHANGED <<free_balance, step_bound>>
    /\ attempt' = 0
    /\ pc' = "ov_attempt"
    /\ UNCHANGED <<cfgVars, entryVars, restVars, polls, filled_qty, avg_price, tp_r, sl_tr_r, sl_lim_r,
                   waited, oco_id, res_oco_id, outVars, exVars>>

\* signal_trader.py, Step E: one pass of "for attempt in range(3)"
SigOverrideAttempt ==
    /\ pc = "ov_attempt"
    /\ LET req == PlaceOco(safe_qty, FinalTp, FinalSl, FinalSlLimit)
       IN  \/ \* place_oco: _get_symbol_info raised
              /\ SigHandled
              /\ UNCHANGED <<ocoLog, liveOco, oco_id, tracker, notified, safe_qty,
                             attempt>>
           \/ \E r \in {"accepted", "no_id"} :
                /\ ocoLog' = Append(ocoLog, LogEntry("override", req, r))
                /\ liveOco' = liveOco \cup ExchangeTakes(r)
                /\ oco_id' = IF r = "accepted" THEN IssuedId ELSE "None"
                /\ \/ \* track_oco(symbol, new_oco_id): entry_price defaults to
                      \* 0.0; break; Step F message
                      /\ tracker' = TrackOco(tracker, oco_id', 0)
                      /\ notified' = OverrideNote(safe_qty, oco_id')
                      /\ pc' = "sig_done"
                      /\ sigOutcome' = "oco_overridden"
                   \/ \* track_oco raised inside the try: not retried, raise
                      /\ SigHandled
                      /\ UNCHANGED <<tracker, notified>>
                /\ UNCHANGED <<safe_qty, attempt>>
           \/ \E kind \in Rejections :
                /\ ocoLog' = Append(ocoLog, LogEntry("override", req, kind))
                /\ UNCHANGED <<liveOco, oco_id, tracker, notified>>
                /\ IF IsInsufficient(kind) /\ attempt < OcoAttempts - 1 /\ step_bound
                   THEN /\ safe_qty' = FloorFrac(safe_qty * 999, 1000, StepSize)
                        /\ attempt' = attempt + 1
                        /\ UNCHANGED <<pc, sigOutcome>>
                   ELSE \* raise, or NameError on the unassigned `step`
                        /\ SigHandled
                        /\ UNCHANGED <<safe_qty, attempt>>
    /\ UNCHANGED <<cfgVars, executed, resting, restVars, polls, filled_qty, avg_price, tp_r, sl_tr_r, sl_lim_r,
                   waited, free_balance, step_bound, res_oco_id, pbaOutcome, pbaErr,
                   position, sells, verified, stopOrder>>

\* --------------------------------------------------- place_oco_after_fill
Standard == ~Trailing /\ ~NeedsOverride

PoafStart ==
    /\ pc = "sig_post"
    /\ Standard
    /\ LimitEntry
    /\ res_oco_id = "None"
    /\ LET tp == round_tick(sig.tp1, TickSize)
           sl == round_tick(sig.stop, TickSize)
           lim == SlLimitOf(sig.stop)
       IN  \/ \* _get_tick_and_step raised
              /\ SigHandled
              /\ UNCHANGED <<tp_r, sl_tr_r, sl_lim_r>>
           \/ /\ tp_r' = tp
              /\ sl_tr_r' = sl
              /\ sl_lim_r' = IF lim >= sl THEN round_tick(sl - TickSize, TickSize) ELSE lim
              /\ IF PriceRelationOk(tp, avg_price, sl)
                 THEN /\ pc' = "poaf_balance"
                      /\ UNCHANGED sigOutcome
                 ELSE \* "Invalid OCO price relation"
                      SigHandled
    /\ waited' = 0
    /\ free_balance' = 0
    /\ UNCHANGED <<cfgVars, entryVars, restVars, polls, filled_qty, avg_price, safe_qty, attempt, oco_id,
                   step_bound, res_oco_id, pbaOutcome, pbaErr, exVars>>

PoafBalancePoll ==
    /\ pc = "poaf_balance"
    /\ waited < BalanceWaitPolls
    /\ \/ \* get_asset_balance raised: not caught here
          /\ SigHandled
          /\ UNCHANGED <<waited, free_balance>>
       \/ \E free \in Balances, locked \in Balances :
            /\ free_balance' = free
            /\ IF Settled(free, locked, filled_qty)
               THEN /\ pc' = "poaf_place"
                    /\ waited' = 0
               ELSE /\ waited' = IF waited + 1 >= BalanceWaitPolls THEN 0 ELSE waited + 1
                    /\ pc' = IF waited + 1 >= BalanceWaitPolls
                             THEN "poaf_place" ELSE "poaf_balance"
            /\ UNCHANGED sigOutcome
    /\ UNCHANGED <<cfgVars, entryVars, restVars, polls, filled_qty, avg_price, tp_r, sl_tr_r, sl_lim_r,
                   safe_qty, attempt, oco_id, step_bound, res_oco_id, pbaOutcome,
                   pbaErr, exVars>>

PoafPlace ==
    /\ pc = "poaf_place"
    /\ LET q == SafeQty(free_balance, filled_qty)
           req == PlaceOco(q, tp_r, sl_tr_r, sl_lim_r)
       IN  /\ safe_qty' = q
           /\ \/ \* dust, or place_oco: _get_symbol_info raised
                 /\ SigHandled
                 /\ UNCHANGED <<ocoLog, liveOco, oco_id, res_oco_id, verified>>
              \/ /\ q >= StepSize
                 /\ \E kind \in Rejections :
                      /\ ocoLog' = Append(ocoLog, LogEntry("poaf", req, kind))
                      /\ SigHandled
                      /\ UNCHANGED <<liveOco, oco_id, res_oco_id, verified>>
              \/ \* HTTP 200 without orderListId: "OCO response missing orderListId"
                 /\ q >= StepSize
                 /\ ocoLog' = Append(ocoLog, LogEntry("poaf", req, "no_id"))
                 /\ liveOco' = liveOco \cup ExchangeTakes("no_id")
                 /\ oco_id' = "None"
                 /\ SigHandled
                 /\ UNCHANGED <<res_oco_id, verified>>
              \/ /\ q >= StepSize
                 /\ ocoLog' = Append(ocoLog, LogEntry("poaf", req, "accepted"))
                 /\ liveOco' = liveOco \cup ExchangeTakes("accepted")
                 /\ oco_id' = IssuedId
                 /\ res_oco_id' = IssuedId
                 /\ verified' \in BOOLEAN   \* verify_oco, result not read
                 /\ pc' = "sig_notify"
                 /\ UNCHANGED sigOutcome
    /\ UNCHANGED <<cfgVars, entryVars, restVars, polls, filled_qty, avg_price, tp_r, sl_tr_r, sl_lim_r,
                   waited, free_balance, attempt, step_bound, pbaOutcome, pbaErr,
                   position, sells, stopOrder, tracker>>

\* the "BUY filled ... OCO set" notification and the tracking that follows
SigNotify ==
    /\ \/ pc = "sig_notify"
       \/ pc = "sig_post" /\ Standard /\ ~(LimitEntry /\ res_oco_id = "None")
    /\ notified' = StandardNote
    /\ \/ /\ IF impl = "signal_trader" \/ res_oco_id # "None"
             THEN tracker' = TrackOco(tracker, res_oco_id, avg_price)
             ELSE UNCHANGED tracker
          /\ pc' = "sig_done"
          /\ sigOutcome' = "oco_placed"
       \/ \* track_oco raised
          /\ impl = "signal_trader" \/ res_oco_id # "None"
          /\ SigHandled
          /\ UNCHANGED tracker
    /\ UNCHANGED <<cfgVars, executed, resting, restVars, localVars, pbaOutcome, pbaErr, position, sells, ocoLog,
                   liveOco, verified, stopOrder>>

\* ------------------------------------------------ activate_trailing_logic
\* Settings.trailing_tp_activation_pct = 0.01 (percent)
ActivationPct == 1
\* most trailing-stop submissions followed in one run of the watcher
MaxSubmits == 3
WatchPrices == {94, 95, 101, 106, 107}

\* curr_px >= act_px, act_px = actual_fill_price * (1.0 + activation)
ActivationHit(px) == px * 100 >= avg_price * (100 + ActivationPct)

\* where the watcher goes after cancel_order: an exception skips the rest
\* of the try block
AfterCancelAlways(returned) == "w_submit"
AfterCancel(returned) == IF returned THEN "w_submit" ELSE "w_poll"

\* the state in which on_signal created the watcher task: entry filled, the
\* fixed stop-loss accepted for the safe quantity
WatchInit ==
    /\ impl \in Impls
    /\ s \in {x \in SettingsSet : /\ x.exit_mode = "trailing_tp"
                                   /\ x.override_sl_as_absolute => x.override_sl_enabled}
    /\ sig \in [tp1 : SignalTps, stop : SignalStops]
    /\ acceptable = TRUE
    /\ pc = "sig_done"
    /\ sigOutcome = "trailing_started"
    /\ filled_qty \in FillQtys
    /\ avg_price \in FillPrices
    /\ position = filled_qty
    /\ executed = filled_qty
    /\ free_balance = filled_qty
    /\ safe_qty = SafeQty(free_balance, filled_qty)
    /\ stopOrder = TRUE
    /\ polls = 0 /\ tp_r = 0 /\ sl_tr_r = 0 /\ sl_lim_r = 0 /\ waited = 0
    /\ attempt = 0 /\ oco_id = "unbound" /\ step_bound = FALSE
    /\ res_oco_id = "None" /\ pbaOutcome = "none" /\ pbaErr = NoErr
    /\ sells = <<>> /\ ocoLog = <<>> /\ liveOco = {} /\ verified = FALSE
    /\ tracker = [k \in {} |-> 0]
    /\ resting = FALSE
    /\ notified = NoNote
    /\ wpc = "w_poll"
    /\ curr_px = 0
    /\ slOpen = TRUE
    /\ held = TRUE
    /\ cancelOk = FALSE
    /\ trailLog = <<>>
    /\ DupOff
    /\ LoopOff
    /\ DogOff
    /\ ClsOff
    /\ HealthOff
    /\ RmwOff
    /\ HitOff
    /\ RaceOff
    /\ GateOff
    /\ NtfOff
    /\ TrkOff
    /\ QuantOff
    /\ NotionalOff
    /\ ShiftOff
    /\ BuyOff
    /\ FrameOff
    /\ AuditOff
    /\ MonOff

\* fetch_ticker and the activation test; an exception or a price below the
\* activation price leads to the sleep and the next pass
WatchPoll ==
    /\ wpc = "w_poll"
    /\ \/ \* fetch_ticker raised
          UNCHANGED <<wpc, curr_px>>
       \/ \E px \in WatchPrices :
            /\ curr_px' = px
            /\ wpc' = IF ActivationHit(px) THEN "w_cancel" ELSE "w_poll"
    /\ UNCHANGED <<outsideWatch, slOpen, held, cancelOk, trailLog>>

\* cancel_order(current_sl_id, sym): an order that is not open cannot be
\* cancelled
WatchCancel ==
    /\ wpc = "w_cancel"
    /\ \/ \* cancelled
          /\ slOpen
          /\ slOpen' = FALSE
          /\ cancelOk' = TRUE
          /\ wpc' = AfterCancel(TRUE)
       \/ \* raised: order unknown, or the request did not get through
          /\ wpc' = AfterCancel(FALSE)
          /\ UNCHANGED <<slOpen, cancelOk>>
    /\ UNCHANGED <<outsideWatch, curr_px, held, trailLog>>

\* place_trailing_take_profit_market_sell(sym, qty, None, pullback)
WatchSubmit ==
    /\ wpc = "w_submit"
    /\ Len(trailLog) < MaxSubmits
    /\ \E ok \in BOOLEAN :
         /\ trailLog' = Append(trailLog, [hit |-> ActivationHit(curr_px),
                                          cancelled |-> cancelOk,
                                          stop_open |-> slOpen,
                                          held |-> held,
                                          ok |-> ok])
         /\ wpc' = IF ok THEN "w_done" ELSE "w_poll"
    /\ UNCHANGED <<outsideWatch, curr_px, slOpen, held, cancelOk>>

\* the exchange triggers the fixed stop-loss: the position is sold
StopTriggers ==
    /\ wpc \in {"w_poll", "w_cancel"}
    /\ slOpen
    /\ slOpen' = FALSE
    /\ held' = FALSE
    /\ UNCHANGED <<outsideWatch, wpc, curr_px, cancelOk, trailLog>>

WatchNext ==
    \/ WatchPoll
    \/ WatchCancel
    \/ WatchSubmit
    \/ StopTriggers

SpecWatch == WatchInit /\ [][WatchNext]_vars

\* the watcher task keeps being scheduled; prices at or above the activation
\* price and accepted submissions are not withheld for ever
FairSpecWatch ==
    /\ SpecWatch
    /\ WF_vars(WatchPoll)
    /\ WF_vars(WatchCancel)
    /\ WF_vars(WatchSubmit)
    /\ SF_vars(WatchPoll /\ wpc' = "w_cancel")
    /\ SF_vars(WatchSubmit /\ wpc' = "w_done")

\* ------------------------------------- on_signal: duplicate signal protection
\* `now - ts < 180`
DupWindow == 180
\* seconds between two readings of the clock, and the last reading
ClockStep == 60
MaxClock == 240
\* 1e-6, prices counted in 1e-7
Micro == 10
Syms == {"AAA/USDT", "BBB/USDT"}
DupEntries == {20000004, 20000006, 20000014}

Abs(x) == IF x < 0 THEN -x ELSE x

\* round(float(sig.entry), 6)
Round6(e) == Round8(e, Micro) * Micro

\* the entries _recent_signals keeps: now - ts < 180
FreshShort(t_now, ts) == t_now - ts < ClockStep
Fresh(t_now, ts) == t_now - ts < DupWindow

\* sym == symbol_clean and abs(ent - entry_price) < 1e-6
DupMatch(r, sym, ent) == r.sym = sym /\ Abs(r.ent - ent) < Micro

DupInit ==
    /\ impl \in Impls
    /\ s = [override_tp_enabled |-> FALSE, override_sl_enabled |-> FALSE,
            override_sl_as_absolute |-> FALSE, exit_mode |-> "fixed_oco"]
    /\ sig = [tp1 |-> 102, stop |-> 90]
    /\ acceptable = TRUE
    /\ pc = "sig_entry"
    /\ polls = 0 /\ filled_qty = 0 /\ avg_price = 0
    /\ tp_r = 0 /\ sl_tr_r = 0 /\ sl_lim_r = 0 /\ waited = 0
    /\ free_balance = 0 /\ safe_qty = 0
    /\ attempt = 0 /\ oco_id = "unbound" /\ step_bound = FALSE
    /\ res_oco_id = "None" /\ pbaOutcome = "none" /\ pbaErr = NoErr
    /\ sigOutcome = "running" /\ position = 0
    /\ sells = <<>> /\ ocoLog = <<>> /\ liveOco = {} /\ verified = FALSE
    /\ stopOrder = FALSE
    /\ tracker = [k \in {} |-> 0]
    /\ executed = 0
    /\ resting = FALSE
    /\ notified = NoNote
    /\ WatchOff
    /\ tpc = [t \in Tasks |-> "new"]
    /\ tsig \in [Tasks -> [sym : Syms, entry : DupEntries]]
    /\ now = 0
    /\ recent = {}
    /\ checkedAt = [t \in Tasks |-> -1]
    /\ LoopOff
    /\ DogOff
    /\ ClsOff
    /\ HealthOff
    /\ RmwOff
    /\ HitOff
    /\ RaceOff
    /\ GateOff
    /\ NtfOff
    /\ TrkOff
    /\ QuantOff
    /\ NotionalOff
    /\ ShiftOff
    /\ BuyOff
    /\ FrameOff
    /\ AuditOff
    /\ MonOff

\* time passes between any two steps
DupTick ==
    /\ now + ClockStep <= MaxClock
    /\ now' = now + ClockStep
    /\ UNCHANGED <<outsideDup, tpc, tsig, recent, checkedAt>>

\* "New Signal Detected" and pair resolution, each ending in an await
DupAnnounce(t) ==
    /\ tpc[t] = "new"
    /\ \/ tpc' = [tpc EXCEPT ![t] = "resolved"]
       \/ \* "Pair not found": return
          tpc' = [tpc EXCEPT ![t] = "no_pair"]
    /\ UNCHANGED <<outsideDup, tsig, now, recent, checkedAt>>

\* from `now = time.time()` to the append or to the await of the duplicate
\* notification: no suspension point in between
DupCheck(t) ==
    /\ tpc[t] = "resolved"
    /\ LET kept == {r \in recent : Fresh(now, r.ts)}
           ent == Round6(tsig[t].entry)
       IN  IF \E r \in kept : DupMatch(r, tsig[t].sym, ent)
           THEN /\ recent' = kept
                /\ tpc' = [tpc EXCEPT ![t] = "dup_notify"]
           ELSE /\ recent' = kept \cup {[sym |-> tsig[t].sym, ent |-> ent, ts |-> now]}
                /\ tpc' = [tpc EXCEPT ![t] = "sizing"]
    /\ checkedAt' = [checkedAt EXCEPT ![t] = now]
    /\ UNCHANGED <<outsideDup, tsig, now>>

\* "Duplicate signal ignored", skip_duplicate, return
DupSkip(t) ==
    /\ tpc[t] = "dup_notify"
    /\ tpc' = [tpc EXCEPT ![t] = "skipped"]
    /\ UNCHANGED <<outsideDup, tsig, now, recent, checkedAt>>

\* balance and sizing, then the execution block (or one of the returns
\* before it)
DupProceed(t) ==
    /\ tpc[t] = "sizing"
    /\ \/ tpc' = [tpc EXCEPT ![t] = "ordering"]
       \/ tpc' = [tpc EXCEPT ![t] = "ended"]
    /\ UNCHANGED <<outsideDup, tsig, now, recent, checkedAt>>

DupNext ==
    \/ DupTick
    \/ \E t \in Tasks : DupAnnounce(t)
    \/ \E t \in Tasks : DupCheck(t)
    \/ \E t \in Tasks : DupSkip(t)
    \/ \E t \in Tasks : DupProceed(t)

SpecDup == DupInit /\ [][DupNext]_vars

\* --------------------------------------------- the event loop and its tasks
Modes == {"limit", "bracket", "override", "trailing"}

\* the phases of on_signal's execution block, in order, for each branch
PhaseSeq(mode) ==
    CASE mode = "limit" ->
           <<"start", "limit_buy", "balance_wait", "oco_submit", "verify", "notify", "done">>
      [] mode = "bracket" ->
           <<"start", "entry_poll", "balance_wait", "oco_submit", "verify", "notify", "done">>
      [] mode = "override" ->
           <<"start", "entry_poll", "balance_wait", "oco_submit", "notify", "done">>
      [] OTHER ->
           <<"start", "entry_poll", "stop_place", "notify", "done">>

\* phases in which on_signal is suspended at an await: notifications, and the
\* calls handed to asyncio.to_thread (execute_limit_buy,
\* place_stop_loss_market_sell); every other exchange call is a plain call
\* that returns only when its polling and time.sleep are over
Awaiting(phase) == phase \in {"start", "limit_buy", "stop_place", "notify", "done"}

IndexOf(seq, x) == CHOOSE i \in DOMAIN seq : seq[i] = x

LoopInit ==
    /\ OrderFresh
    /\ WatchOff
    /\ DupOff
    /\ lmode \in Modes
    /\ ophase = "start"
    /\ holder = "none"
    /\ lpc = [l \in Loops |-> "sleeping"]
    /\ DogOff
    /\ ClsOff
    /\ HealthOff
    /\ RmwOff
    /\ HitOff
    /\ RaceOff
    /\ GateOff
    /\ NtfOff
    /\ TrkOff
    /\ QuantOff
    /\ NotionalOff
    /\ ShiftOff
    /\ BuyOff
    /\ FrameOff
    /\ AuditOff
    /\ MonOff

\* on_signal goes on to its next phase; a suspended task resumes only when
\* the loop is idle, a running one keeps the loop until its next await
OnSignalAdvance ==
    /\ ophase # "done"
    /\ holder = IF Awaiting(ophase) THEN "none" ELSE "on_signal"
    /\ LET seq == PhaseSeq(lmode)
           nxt == seq[IndexOf(seq, ophase) + 1]
       IN  /\ ophase' = nxt
           /\ holder' = IF Awaiting(nxt) THEN "none" ELSE "on_signal"
    /\ UNCHANGED <<outsideLoop, lmode, lpc>>

\* the asyncio.sleep of a loop task is over
LoopWake(l) ==
    /\ lpc[l] = "sleeping"
    /\ lpc' = [lpc EXCEPT ![l] = "ready"]
    /\ UNCHANGED <<outsideLoop, lmode, ophase, holder>>

\* the event loop resumes a ready task
LoopRun(l) ==
    /\ lpc[l] = "ready"
    /\ holder = "none"
    /\ holder' = l
    /\ lpc' = [lpc EXCEPT ![l] = "running"]
    /\ UNCHANGED <<outsideLoop, lmode, ophase>>

\* the pass ends at `await asyncio.sleep(...)`
LoopYield(l) ==
    /\ lpc[l] = "running"
    /\ holder = l
    /\ holder' = "none"
    /\ lpc' = [lpc EXCEPT ![l] = "sleeping"]
    /\ UNCHANGED <<outsideLoop, lmode, ophase>>

LoopNext ==
    \/ OnSignalAdvance
    \/ \E l \in Loops : LoopWake(l)
    \/ \E l \in Loops : LoopRun(l)
    \/ \E l \in Loops : LoopYield(l)

SpecLoop == LoopInit /\ [][LoopNext]_vars

\* ------------------------------------------------------ flatten_watchdog
DustNotional == 10
QuoteAssets == {"USDT", "USDC", "BUSD"}
DogQtys == {0, 1, 3}
DogPrices == {3, 10}
MarketSets == {{}, {"USDT"}, {"USDC", "USDT"}}

\* the first of USDC, USDT the asset has a market with ("none" if neither)
DogQuote(markets) ==
    IF "USDC" \in markets THEN "USDC"
    ELSE IF "USDT" \in markets THEN "USDT"
    ELSE "none"

UnprotectedEither(tp_present, sl_present) == ~tp_present \/ ~sl_present
\* `if not tp_present and not sl_present`
Unprotected(tp_present, sl_present) == ~tp_present /\ ~sl_present

DogInit ==
    /\ OrderFresh
    /\ WatchOff
    /\ DupOff
    /\ LoopOff
    /\ dpc = "sleeping"
    /\ dbal \in {b \in [Assets -> DogQtys \cup {5}] :
                    b["USDT"] = 5 /\ b["AAA"] # 5 /\ b["BBB"] # 5}
    /\ dfacts \in [Assets -> [markets : MarketSets, price : DogPrices,
                              tp : BOOLEAN, sl : BOOLEAN]]
    /\ dfacts["USDT"] = [markets |-> {}, price |-> 3, tp |-> FALSE, sl |-> FALSE]
    /\ open_assets = [a \in {} |-> 0]
    /\ dtodo = {}
    /\ dq = [a \in Assets |-> Unasked]
    /\ dsold = {}
    /\ dnoted = {}
    /\ dcut = FALSE
    /\ ClsOff
    /\ HealthOff
    /\ RmwOff
    /\ HitOff
    /\ RaceOff
    /\ GateOff
    /\ NtfOff
    /\ TrkOff
    /\ QuantOff
    /\ NotionalOff
    /\ ShiftOff
    /\ BuyOff
    /\ FrameOff
    /\ AuditOff
    /\ MonOff

\* a pass begins: fetch_balance, and the non-quote assets with a free balance
DogStart ==
    /\ dpc = "sleeping"
    /\ dq' = [a \in Assets |-> Unasked]
    /\ dsold' = {}
    /\ dnoted' = {}
    /\ \/ \* fetch_balance raised: the outer handler logs and sleeps
          /\ dpc' = "ended"
          /\ dcut' = TRUE
          /\ open_assets' = [a \in {} |-> 0]
          /\ dtodo' = {}
       \/ /\ dpc' = "visiting"
          /\ dcut' = FALSE
          /\ LET open == {a \in Assets : a \notin QuoteAssets /\ dbal[a] > 0}
             IN  /\ open_assets' = [a \in open |-> dbal[a]]
                 /\ dtodo' = open
    /\ UNCHANGED <<outsideDog, dbal, dfacts>>

\* one iteration of `for asset, qty in open_assets.items()`
DogVisit(asset) ==
    /\ dpc = "visiting"
    /\ asset \in dtodo
    /\ dtodo' = dtodo \ {asset}
    /\ LET qty == open_assets[asset]
           f == dfacts[asset]
           quote == DogQuote(f.markets)
           skip(q) == /\ dq' = [dq EXCEPT ![asset] = q]
                      /\ UNCHANGED <<dpc, dbal, dsold, dnoted, dcut>>
       IN  IF quote = "none"
           THEN skip(Unasked)
           ELSE
           \/ \* fetch_ticker raised: price is None
              skip([Unasked EXCEPT !.ticker = "failed"])
           \/ IF qty * f.price < DustNotional
              THEN skip([Unasked EXCEPT !.ticker = "ok"])
              ELSE
              \/ \* _get_tick_and_step raised: the pass is over
                 /\ dq' = [dq EXCEPT ![asset] =
                               [Unasked EXCEPT !.ticker = "ok", !.rules = "failed"]]
                 /\ dpc' = "ended"
                 /\ dcut' = TRUE
                 /\ UNCHANGED <<dbal, dsold, dnoted>>
              \/ IF qty < StepSize
                 THEN skip([Unasked EXCEPT !.ticker = "ok", !.rules = "ok"])
                 ELSE
                 \/ \* fetch_open_orders raised
                    skip([ticker |-> "ok", rules |-> "ok", orders |-> "failed"])
                 \/ /\ dq' = [dq EXCEPT ![asset] =
                                  [ticker |-> "ok", rules |-> "ok", orders |-> "ok"]]
                    /\ IF Unprotected(f.tp, f.sl)
                       THEN /\ dnoted' = dnoted \cup {asset}
                            /\ dsold' = dsold \cup {asset}
                            /\ \/ dbal' = [dbal EXCEPT ![asset] = 0,
                                                        ![quote] = Min(@ + 1, 5)]
                               \/ \* create_order raised: flatten_error
                                  UNCHANGED dbal
                       ELSE UNCHANGED <<dbal, dsold, dnoted>>
                    /\ UNCHANGED <<dpc, dcut>>
    /\ UNCHANGED <<outsideDog, dfacts, open_assets>>

\* the loop over the assets is over
DogEnd ==
    /\ dpc = "visiting"
    /\ dtodo = {}
    /\ dpc' = "ended"
    /\ UNCHANGED <<outsideDog, dbal, dfacts, open_assets, dtodo, dq, dsold, dnoted, dcut>>

\* `await asyncio.sleep(interval)`
DogSleep ==
    /\ dpc = "ended"
    /\ dpc' = "sleeping"
    /\ UNCHANGED <<outsideDog, dbal, dfacts, open_assets, dtodo, dq, dsold, dnoted, dcut>>

DogNext ==
    \/ DogStart
    \/ \E asset \in Assets : DogVisit(asset)
    \/ DogEnd
    \/ DogSleep

SpecDog == DogInit /\ [][DogNext]_vars

\* ------------------------------------------------ monitor_tracked_oco_loop
NoChild == [status |-> "none", type |-> "none", price |-> 0, exec |-> 0]
ChildTypes == {"STOP_LOSS_LIMIT", "TAKE_PROFIT_LIMIT", "LIMIT_MAKER"}
ChildPrices == {95, 105}
ChildExecs == {0, 5}
StoredEntries == {0, 100}
Children ==
    {NoChild} \cup [status : {"FILLED", "NEW"}, type : ChildTypes,
                    price : ChildPrices, exec : ChildExecs]

\* `"STOP" in o_type`, `"TAKE_PROFIT" in o_type`
HasStop(type) == type \in {"STOP_LOSS_LIMIT", "STOP_LOSS"}
HasTakeProfit(type) == type \in {"TAKE_PROFIT_LIMIT", "TAKE_PROFIT"}

\* the child counts: status FILLED and executedQty > 0
Counts(o) == o.status = "FILLED" /\ o.exec > 0

\* price against entry whatever the order type
LabelByPrice(o, entry) ==
    LET entry_price == IF entry = 0 THEN o.price ELSE entry
    IN  IF o.price < entry_price THEN "SL" ELSE "TP"

\* the label of a counted child
Label(o, entry) ==
    IF HasStop(o.type) THEN "SL"
    ELSE IF HasTakeProfit(o.type) THEN "TP"
    ELSE LabelByPrice(o, entry)

\* untrack_oco
Untrack(tr, id) == [k \in DOMAIN tr \ {id} |-> tr[k]]

\* `int(k)` of list_tracked_oco accepts the key
NumericKey(k) == k # "None"

ClsInit ==
    /\ OrderIdle
    /\ WatchOff
    /\ DupOff
    /\ LoopOff
    /\ DogOff
    /\ HealthOff
    /\ RmwOff
    /\ HitOff
    /\ RaceOff
    /\ GateOff
    /\ NtfOff
    /\ TrkOff
    /\ QuantOff
    /\ NotionalOff
    /\ ShiftOff
    /\ BuyOff
    /\ FrameOff
    /\ AuditOff
    /\ MonOff
    /\ \E keys \in {{}, {"oco1"}, {"oco1", "oco2"}, {"oco1", "oco2", "None"}} :
          tracker \in [keys -> StoredEntries]
    /\ cpc = "sleeping"
    /\ chist \in [TrackerKeys -> Children]
    /\ chist["None"] = NoChild
    /\ chist["oco2"].type \in {"none", "LIMIT_MAKER"}
    /\ tracked = {}
    /\ cfetched = [k \in TrackerKeys |-> "unasked"]
    /\ chits = [k \in TrackerKeys |-> <<>>]
    /\ ccut = FALSE
    /\ cstart = {}

\* a pass begins: list_tracked_oco
ClsList ==
    /\ cpc = "sleeping"
    /\ cfetched' = [k \in TrackerKeys |-> "unasked"]
    /\ cstart' = DOMAIN tracker
    /\ IF \E k \in DOMAIN tracker : ~NumericKey(k)
       THEN \* int(k) raised: "OCO monitor loop fatal error", sleep
            /\ cpc' = "ended"
            /\ ccut' = TRUE
            /\ tracked' = {}
       ELSE /\ ccut' = FALSE
            /\ tracked' = DOMAIN tracker
            /\ cpc' = IF DOMAIN tracker = {} THEN "ended" ELSE "visiting"
    /\ UNCHANGED <<outsideCls, tracker, chist, chits>>

\* one iteration of `for oco_id, meta in list(tracked.items())`
ClsVisit(id) ==
    /\ cpc = "visiting"
    /\ id \in tracked
    /\ tracked' = tracked \ {id}
    /\ \/ \* get_all_orders raised: "OCO history poll error"
          /\ cfetched' = [cfetched EXCEPT ![id] = "failed"]
          /\ UNCHANGED <<tracker, chits>>
       \/ /\ cfetched' = [cfetched EXCEPT ![id] = "ok"]
          /\ LET o == chist[id]
                 entry == tracker[id]
             IN  IF Counts(o)
                 THEN /\ chits' = [chits EXCEPT ![id] =
                                      Append(@, [label |-> Label(o, entry),
                                                 entry |-> entry])]
                      /\ tracker' = Untrack(tracker, id)
                 ELSE UNCHANGED <<tracker, chits>>
    /\ UNCHANGED <<outsideCls, cpc, chist, ccut, cstart>>

\* the loop over the tracked ids is over
ClsEnd ==
    /\ cpc = "visiting"
    /\ tracked = {}
    /\ cpc' = "ended"
    /\ UNCHANGED <<outsideCls, tracker, chist, tracked, cfetched, chits, ccut, cstart>>

\* `await asyncio.sleep(5)`
ClsSleep ==
    /\ cpc = "ended"
    /\ cpc' = "sleeping"
    /\ UNCHANGED <<outsideCls, tracker, chist, tracked, cfetched, chits, ccut, cstart>>

ClsNext ==
    \/ ClsList
    \/ \E id \in TrackerKeys : ClsVisit(id)
    \/ ClsEnd
    \/ ClsSleep

SpecCls == ClsInit /\ [][ClsNext]_vars

\* the loop is scheduled again after every sleep, a pass goes through the ids
\* it listed, and a query that is repeated does not fail every time
FairSpecCls ==
    /\ SpecCls
    /\ WF_vars(ClsList)
    /\ WF_vars(ClsEnd)
    /\ WF_vars(ClsSleep)
    /\ \A id \in TrackerKeys : WF_vars(ClsVisit(id))
    /\ \A id \in TrackerKeys : SF_vars(ClsVisit(id) /\ cfetched'[id] = "ok")

\* ---------------------------------------------------- monitor_orders_loop
FillAmounts == {0, 5}

\* two brackets of a take-profit and a stop-loss leg each, and one plain limit
\* order; the second bracket is on the first one's symbol or on another
BracketOrders(symB) ==
    [i \in OrderIds |->
        CASE i = 1 -> [symbol |-> "AAA/USDT", bracket |-> "A", type |-> "TAKE_PROFIT_LIMIT",
                       status |-> "open", filled |-> 0]
          [] i = 2 -> [symbol |-> "AAA/USDT", bracket |-> "A", type |-> "STOP_LOSS_LIMIT",
                       status |-> "open", filled |-> 0]
          [] i = 3 -> [symbol |-> symB, bracket |-> "B", type |-> "TAKE_PROFIT_LIMIT",
                       status |-> "open", filled |-> 0]
          [] i = 4 -> [symbol |-> symB, bracket |-> "B", type |-> "STOP_LOSS_LIMIT",
                       status |-> "open", filled |-> 0]
          [] OTHER -> [symbol |-> "AAA/USDT", bracket |-> "none", type |-> "LIMIT",
                       status |-> "open", filled |-> 0]]

OpenIds == {i \in OrderIds : xorders[i].status = "open"}

\* `"TP" if "TAKE_PROFIT" in order['type'] else "SL" if "STOP_LOSS" in order['type'] else None`
MonType(type) ==
    IF type \in {"TAKE_PROFIT_LIMIT", "TAKE_PROFIT"} THEN "TP"
    ELSE IF type \in {"STOP_LOSS_LIMIT", "STOP_LOSS"} THEN "SL"
    ELSE "None"

\* `order['status'] == 'closed' and order['filled'] > 0`
ConfirmedLoose(order) == order.status # "open"
ConfirmedFilled(order) == order.status = "closed" /\ order.filled > 0

\* the orders the monitor asks the exchange to cancel after a confirmed fill:
\* every open STOP_LOSS / TAKE_PROFIT order of fetch_open_orders(info['symbol'])
CancelTargets(symbol) ==
    {i \in OpenIds : xorders[i].symbol = symbol /\ MonType(xorders[i].type) # "None"}

MonInit ==
    /\ OrderFresh
    /\ WatchOff
    /\ DupOff
    /\ LoopOff
    /\ DogOff
    /\ ClsOff
    /\ HealthOff
    /\ RmwOff
    /\ HitOff
    /\ RaceOff
    /\ GateOff
    /\ NtfOff
    /\ TrkOff
    /\ QuantOff
    /\ NotionalOff
    /\ ShiftOff
    /\ BuyOff
    /\ FrameOff
    /\ AuditOff
    /\ mpc = "sleeping"
    /\ xorders \in {BracketOrders(symB) : symB \in {"AAA/USDT", "BBB/USDT"}}
    /\ tracked_orders = [i \in {} |-> 0]
    /\ filled_ids = {}
    /\ mreports = [i \in OrderIds |-> <<>>]
    /\ mcancels = {}
    /\ mlook = [i \in OrderIds |-> "unasked"]

\* the exchange fills an open order; the other leg of its bracket is
\* cancelled by the exchange or keeps resting
ExchangeFills(i) ==
    /\ xorders[i].status = "open"
    /\ \E drop \in BOOLEAN :
         xorders' = [j \in OrderIds |->
            IF j = i THEN [xorders[j] EXCEPT !.status = "closed", !.filled = 5]
            ELSE IF /\ drop
                    /\ xorders[j].status = "open"
                    /\ xorders[i].bracket # "none"
                    /\ xorders[j].bracket = xorders[i].bracket
                 THEN [xorders[j] EXCEPT !.status = "canceled"]
                 ELSE xorders[j]]
    /\ UNCHANGED <<outsideMon, mpc, tracked_orders, filled_ids, mreports, mcancels, mlook>>

\* an open leg is cancelled from outside the monitor, unfilled or in part
ExchangeCancels(i) ==
    /\ xorders[i].status = "open"
    /\ xorders[i].bracket # "none"
    /\ \E f \in FillAmounts :
         xorders' = [xorders EXCEPT ![i].status = "canceled", ![i].filled = f]
    /\ UNCHANGED <<outsideMon, mpc, tracked_orders, filled_ids, mreports, mcancels, mlook>>

\* after the sleep: fetch_open_orders, remember the new protective orders,
\* and the remembered ids that are no longer open
MonSnapshot ==
    /\ mpc = "sleeping"
    /\ \/ \* fetch_open_orders raised: "order monitor error", sleep
          UNCHANGED <<mpc, tracked_orders, filled_ids>>
       \/ LET seen == {i \in OpenIds : MonType(xorders[i].type) # "None"}
              all == [i \in DOMAIN tracked_orders \cup seen |->
                        IF i \in DOMAIN tracked_orders THEN tracked_orders[i]
                        ELSE [symbol |-> xorders[i].symbol,
                              type |-> MonType(xorders[i].type)]]
          IN  /\ tracked_orders' = all
              /\ filled_ids' = DOMAIN all \ OpenIds
              /\ mpc' = "confirming"
    /\ UNCHANGED <<outsideMon, xorders, mreports, mcancels, mlook>>

\* one iteration of `for order_id in filled_ids`
MonConfirm(order_id) ==
    /\ mpc = "confirming"
    /\ order_id \in filled_ids
    /\ filled_ids' = filled_ids \ {order_id}
    /\ tracked_orders' = [i \in DOMAIN tracked_orders \ {order_id} |-> tracked_orders[i]]
    /\ LET info == tracked_orders[order_id]
       IN  \/ \* fetch_order raised
              /\ mlook' = [mlook EXCEPT ![order_id] = "failed"]
              /\ UNCHANGED <<xorders, mreports, mcancels>>
           \/ /\ mlook' = [mlook EXCEPT ![order_id] = "ok"]
              /\ IF ConfirmedFilled(xorders[order_id])
                 THEN /\ mreports' = [mreports EXCEPT ![order_id] = Append(@, info.type)]
                      /\ \/ \* fetch_open_orders(symbol) raised: nothing cancelled
                            UNCHANGED <<xorders, mcancels>>
                         \/ LET asked == CancelTargets(info.symbol)
                            IN  /\ mcancels' = mcancels \cup asked
                                /\ \E done \in SUBSET asked :
                                     xorders' = [j \in OrderIds |->
                                        IF j \in done
                                        THEN [xorders[j] EXCEPT !.status = "canceled"]
                                        ELSE xorders[j]]
                 ELSE UNCHANGED <<xorders, mreports, mcancels>>
    /\ UNCHANGED <<outsideMon, mpc>>

\* the pass is over: back to `await asyncio.sleep(15)`
MonEnd ==
    /\ mpc = "confirming"
    /\ filled_ids = {}
    /\ mpc' = "sleeping"
    /\ UNCHANGED <<outsideMon, xorders, tracked_orders, filled_ids, mreports, mcancels, mlook>>

MonNext ==
    \/ \E i \in OrderIds : ExchangeFills(i)
    \/ \E i \in OrderIds : ExchangeCancels(i)
    \/ MonSnapshot
    \/ \E order_id \in OrderIds : MonConfirm(order_id)
    \/ MonEnd

SpecMon == MonInit /\ [][MonNext]_vars

\* --------------------------------------------------- audit_positions_loop
LegTypes == {"TAKE_PROFIT_LIMIT", "STOP_LOSS_LIMIT"}

\* `if not {"TAKE_PROFIT_LIMIT", "STOP_LOSS_LIMIT"}.issubset(types)`
AnyLeg(types) == types # {}
LegMissing(types) == ~(LegTypes \subseteq types)

\* `'TP' if 'TAKE_PROFIT_LIMIT' not in types else 'SL'`
MissingLeg(types) == IF "TAKE_PROFIT_LIMIT" \notin types THEN "TP" ELSE "SL"

AuditInit ==
    /\ OrderIdle
    /\ tracker = [k \in {"oco1"} |-> 100]
    /\ WatchOff
    /\ DupOff
    /\ LoopOff
    /\ DogOff
    /\ ClsOff
    /\ HealthOff
    /\ RmwOff
    /\ HitOff
    /\ RaceOff
    /\ GateOff
    /\ NtfOff
    /\ TrkOff
    /\ QuantOff
    /\ NotionalOff
    /\ ShiftOff
    /\ BuyOff
    /\ FrameOff
    /\ mpc = "off"
    /\ xorders \in {BracketOrders(symB) : symB \in AuditSymbols}
    /\ tracked_orders = [i \in {} |-> 0]
    /\ filled_ids = {}
    /\ mreports = [i \in OrderIds |-> <<>>]
    /\ mcancels = {}
    /\ mlook = [i \in OrderIds |-> "unasked"]
    /\ apc = "sleeping"
    /\ alisted = {}
    /\ missing = [y \in {} |-> {}]
    /\ atodo = {}
    /\ awarned = [y \in AuditSymbols |-> <<>>]

\* a pass begins: fetch_open_orders and the grouping by symbol
AuditList ==
    /\ apc = "sleeping"
    /\ awarned' = [y \in AuditSymbols |-> <<>>]
    /\ \/ \* fetch_open_orders raised: "flatten audit error", sleep
          /\ apc' = "ended"
          /\ alisted' = {}
          /\ missing' = [y \in {} |-> {}]
          /\ atodo' = {}
       \/ LET legs == {i \in OpenIds : xorders[i].type \in LegTypes}
              syms == {xorders[i].symbol : i \in legs}
          IN  /\ alisted' = {[id |-> i, symbol |-> xorders[i].symbol,
                              type |-> xorders[i].type] : i \in OpenIds}
              /\ missing' = [y \in syms |->
                               {xorders[i].type : i \in {j \in legs : xorders[j].symbol = y}}]
              /\ atodo' = syms
              /\ apc' = "warning"
    /\ UNCHANGED <<outsideAudit>>

\* one iteration of `for sym, types in missing.items()`
AuditVisit(sym) ==
    /\ apc = "warning"
    /\ sym \in atodo
    /\ atodo' = atodo \ {sym}
    /\ awarned' = IF LegMissing(missing[sym])
                  THEN [awarned EXCEPT ![sym] = Append(@, MissingLeg(missing[sym]))]
                  ELSE awarned
    /\ UNCHANGED <<outsideAudit, apc, alisted, missing>>

\* the pass is over: `await asyncio.sleep(interval)`
AuditEnd ==
    /\ apc = "warning"
    /\ atodo = {}
    /\ apc' = "ended"
    /\ UNCHANGED <<outsideAudit, alisted, missing, atodo, awarned>>

AuditSleep ==
    /\ apc = "ended"
    /\ apc' = "sleeping"
    /\ UNCHANGED <<outsideAudit, alisted, missing, atodo, awarned>>

AuditStep == AuditList \/ (\E sym \in AuditSymbols : AuditVisit(sym)) \/ AuditEnd \/ AuditSleep

AuditNext ==
    \/ \E i \in OrderIds : ExchangeFills(i)
    \/ \E i \in OrderIds : ExchangeCancels(i)
    \/ AuditList
    \/ \E sym \in AuditSymbols : AuditVisit(sym)
    \/ AuditEnd
    \/ AuditSleep

SpecAudit == AuditInit /\ [][AuditNext]_vars

\* ------------------------------------- the loops' frames and their handlers
\* the exchange calls of one iteration, in the order of the code
Calls(l) ==
    CASE l = "fill_monitor" ->
           <<"fetch_open_orders", "fetch_order", "fetch_open_orders_symbol", "cancel_order">>
      [] l = "oco_classifier" -> <<"get_all_orders">>
      [] l = "flatten_watchdog" ->
           <<"fetch_balance", "fetch_ticker", "_get_tick_and_step",
             "fetch_open_orders_symbol", "create_order">>
      [] OTHER -> <<"fetch_open_orders">>

HandlerNone(l, call) == "none"
\* the try block an exception of the call is caught by: one around the call
\* inside the iteration ("inner"), or the one around the whole iteration
Handler(l, call) ==
    CASE l = "fill_monitor" -> IF call = "fetch_open_orders" THEN "outer" ELSE "inner"
      [] l = "oco_classifier" -> "inner"
      [] l = "flatten_watchdog" ->
           IF call \in {"fetch_balance", "_get_tick_and_step"} THEN "outer" ELSE "inner"
      [] OTHER -> "outer"

FrameInit ==
    /\ OrderFresh
    /\ WatchOff
    /\ DupOff
    /\ LoopOff
    /\ DogOff
    /\ ClsOff
    /\ HealthOff
    /\ RmwOff
    /\ HitOff
    /\ RaceOff
    /\ GateOff
    /\ NtfOff
    /\ TrkOff
    /\ QuantOff
    /\ NotionalOff
    /\ ShiftOff
    /\ BuyOff
    /\ MonOff
    /\ AuditOff
    /\ lrun = [l \in Loops |-> "sleeping"]
    /\ lsite = [l \in Loops |-> 0]
    /\ lraised = [l \in Loops |-> FALSE]

\* the sleep is over: the top of `while True`
FrameIterate(l) ==
    /\ lrun[l] = "sleeping"
    /\ lrun' = [lrun EXCEPT ![l] = "calling"]
    /\ lsite' = [lsite EXCEPT ![l] = 1]
    /\ lraised' = [lraised EXCEPT ![l] = FALSE]
    /\ UNCHANGED outsideFrame

\* the call returns, or raises an Exception
FrameCall(l) ==
    /\ lrun[l] = "calling"
    /\ LET last == lsite[l] = Len(Calls(l))
           goOn == /\ lrun' = [lrun EXCEPT ![l] = IF last THEN "sleeping" ELSE "calling"]
                   /\ lsite' = [lsite EXCEPT ![l] = IF last THEN 0 ELSE @ + 1]
       IN  \/ goOn /\ UNCHANGED lraised
           \/ /\ lraised' = [lraised EXCEPT ![l] = TRUE]
              /\ LET h == Handler(l, Calls(l)[lsite[l]])
                 IN  IF h = "inner" THEN goOn
                     ELSE /\ lrun' = [lrun EXCEPT ![l] = IF h = "outer" THEN "handling" ELSE "dead"]
                          /\ lsite' = [lsite EXCEPT ![l] = 0]
    /\ UNCHANGED outsideFrame

\* `await log_error(...)`, `await asyncio.sleep(...)`
FrameHandled(l) ==
    /\ lrun[l] = "handling"
    /\ lrun' = [lrun EXCEPT ![l] = "sleeping"]
    /\ UNCHANGED <<outsideFrame, lsite, lraised>>

FrameNext ==
    \/ \E l \in Loops : FrameIterate(l)
    \/ \E l \in Loops : FrameCall(l)
    \/ \E l \in Loops : FrameHandled(l)

SpecFrame == FrameInit /\ [][FrameNext]_vars

\* the event loop resumes every task whose sleep or call is over
FairSpecFrame ==
    /\ SpecFrame
    /\ \A l \in Loops : WF_vars(FrameIterate(l) \/ FrameCall(l) \/ FrameHandled(l))

\* ------------------------------------------------------ execute_market_buy
\* quantities in lots; prices and quote amounts in hundredths
BuyQtys == {2, 4}
ExecLots == {1, 2}
ExecPrices == {10000, 10300}

LastQuote(cum, executed_qty) == cum
\* `float(o["cummulativeQuoteQty"]) / filled_qty`
AvgFillPrice(cum, executed_qty) == cum \div executed_qty

BuyInit ==
    /\ OrderFresh
    /\ WatchOff
    /\ DupOff
    /\ LoopOff
    /\ DogOff
    /\ ClsOff
    /\ HealthOff
    /\ RmwOff
    /\ HitOff
    /\ RaceOff
    /\ GateOff
    /\ NtfOff
    /\ TrkOff
    /\ QuantOff
    /\ NotionalOff
    /\ ShiftOff
    /\ MonOff
    /\ AuditOff
    /\ FrameOff
    /\ bpc = "submit"
    /\ bpolls = 0
    /\ border = NoOrder
    /\ bresult = NoResult
    /\ berror = "none"

\* ticker, trading rules and order_market_buy
BuySubmit ==
    /\ bpc = "submit"
    /\ \/ \* one of the three calls raised
          /\ bpc' = "raised"
          /\ berror' = "exchange"
          /\ UNCHANGED border
       \/ \E qty \in BuyQtys :
            /\ border' = [status |-> "NEW", origQty |-> qty, executedQty |-> 0,
                          cummulativeQuoteQty |-> 0]
            /\ bpc' = "polling"
            /\ UNCHANGED berror
    /\ UNCHANGED <<outsideBuy, bpolls, bresult>>

\* the exchange executes part of the order at some price
ExchangeExecutes ==
    /\ border.status \in {"NEW", "PARTIALLY_FILLED"}
    /\ \E q \in ExecLots, p \in ExecPrices :
         /\ border.executedQty + q <= border.origQty
         /\ border' = [border EXCEPT
                          !.executedQty = @ + q,
                          !.cummulativeQuoteQty = @ + q * p,
                          !.status = IF border.executedQty + q = border.origQty
                                     THEN "FILLED" ELSE "PARTIALLY_FILLED"]
    /\ UNCHANGED <<outsideBuy, bpc, bpolls, bresult, berror>>

\* one pass of `for i in range(20)`
BuyPoll ==
    /\ bpc = "polling"
    /\ bpolls < MarketBuyPolls
    /\ \/ \* get_order raised
          /\ bpc' = "raised"
          /\ berror' = "exchange"
          /\ UNCHANGED <<bpolls, bresult>>
       \/ IF border.status = "FILLED"
          THEN /\ bresult' = [filled_qty |-> border.executedQty,
                              price |-> AvgFillPrice(border.cummulativeQuoteQty,
                                                     border.executedQty)]
               /\ bpc' = "returned"
               /\ UNCHANGED <<bpolls, berror>>
          ELSE /\ bpolls' = bpolls + 1
               /\ IF bpolls + 1 = MarketBuyPolls
                  THEN bpc' = "raised" /\ berror' = "not_filled_in_time"
                  ELSE UNCHANGED <<bpc, berror>>
               /\ UNCHANGED bresult
    /\ UNCHANGED <<outsideBuy, border>>

BuyNext ==
    \/ BuySubmit
    \/ ExchangeExecutes
    \/ BuyPoll

SpecBuy == BuyInit /\ [][BuyNext]_vars

\* ------------------------------------------- live price sanity at submission
ShiftFill == 100
ShiftTps == {102, 106, 110}
ShiftStops == {90, 94, 96}
ShiftLast == {88, 90, 96, 100, 110, 112}

\* place_oco_after_fill goes from the safe quantity to place_oco with the
\* prices it rounded at its start; it does not read the ticker
NoLiveShift(tp, sl, sllim, last_now) == [tp |-> tp, sl |-> sl, sllim |-> sllim]
\* "Live price sanity" of place_bracket_atomic
LiveShift(tp, sl, sllim, last_now) ==
    LET sl_new == IF last_now <= sl THEN round_tick(last_now - TickSize, TickSize) ELSE sl
    IN  [tp |-> IF last_now >= tp THEN round_tick(last_now + TickSize, TickSize) ELSE tp,
         sl |-> sl_new,
         sllim |-> IF last_now <= sl THEN SlLimitOf(sl_new) ELSE sllim]

ShiftInit ==
    /\ OrderFresh
    /\ WatchOff
    /\ DupOff
    /\ LoopOff
    /\ DogOff
    /\ ClsOff
    /\ HealthOff
    /\ RmwOff
    /\ HitOff
    /\ RaceOff
    /\ GateOff
    /\ NtfOff
    /\ TrkOff
    /\ QuantOff
    /\ NotionalOff
    /\ MonOff
    /\ AuditOff
    /\ FrameOff
    /\ BuyOff
    /\ kpc = "ready"
    /\ kby \in {"pba", "poaf"}
    /\ klast = ShiftFill
    /\ \E q \in FillQtys, tp \in ShiftTps, sl \in ShiftStops :
         kreq = [qty |-> q, tp |-> tp, sl |-> sl,
                 sllim |-> IF SlLimitOf(sl) >= sl THEN round_tick(sl - TickSize, TickSize)
                           ELSE SlLimitOf(sl)]
    /\ ksent = NoReq

\* the market moves while the balance settles
PriceMoves ==
    /\ kpc = "ready"
    /\ \E p \in ShiftLast : klast' = p
    /\ UNCHANGED <<outsideShift, kpc, kby, kreq, ksent>>

\* from the safe quantity to the request place_oco sends
ShiftSubmit ==
    /\ kpc = "ready"
    /\ LET px == IF kby = "pba"
                 THEN LiveShift(kreq.tp, kreq.sl, kreq.sllim, klast)
                 ELSE NoLiveShift(kreq.tp, kreq.sl, kreq.sllim, klast)
           qty == IF kby = "pba" THEN PbaNotionalQty(kreq.qty, px.tp, px.sl) ELSE kreq.qty
       IN  ksent' = PlaceOco(qty, px.tp, px.sl, px.sllim)
    /\ kpc' = "submitted"
    /\ UNCHANGED <<outsideShift, kby, klast, kreq>>

ShiftNext ==
    \/ PriceMoves
    \/ ShiftSubmit

SpecShift == ShiftInit /\ [][ShiftNext]_vars

\* ------------------------------------------------- minimum-notional adjustment
NTicks == {1, 2}
NSteps == {1, 2, 5}
NQuantities == {2, 4, 5, 6, 10}
NTps == {102, 110, 260}
NStops == {90, 96, 240}

\* place_oco for a symbol with the given filters
PlaceOcoOn(tick, step, min_notional, quantity, tp, sl_trigger, sl_limit) ==
    LET qty0 == round_step(quantity, step)
        tp1 == round_tick(tp, tick)
        sl1 == round_tick(sl_trigger, tick)
        lim0 == round_tick(sl_limit, tick)
        lim1 == IF lim0 >= sl1 THEN round_tick(sl1 - tick, tick) ELSE lim0
        low == tp1 * qty0 < min_notional \/ sl1 * qty0 < min_notional
        qty1 == IF low
                THEN FloorFrac(min_notional * 105, Min(tp1, sl1) * 100, step)
                ELSE qty0
    IN  [qty |-> qty1, tp |-> tp1, sl |-> sl1, sllim |-> lim1]

\* the minNotional block of place_bracket_atomic for the given filters
PbaNotionalQtyOn(step, min_notional, qty, tp, sl) ==
    IF tp * qty < min_notional \/ sl * qty < min_notional
    THEN FloorFrac(min_notional * 102, Min(tp, sl) * 100, step)
    ELSE qty

NotionalInit ==
    /\ OrderFresh
    /\ WatchOff
    /\ DupOff
    /\ LoopOff
    /\ DogOff
    /\ ClsOff
    /\ HealthOff
    /\ RmwOff
    /\ HitOff
    /\ RaceOff
    /\ GateOff
    /\ NtfOff
    /\ TrkOff
    /\ QuantOff
    /\ MonOff
    /\ AuditOff
    /\ FrameOff
    /\ BuyOff
    /\ ShiftOff
    /\ npc = "ready"
    /\ \E tick \in NTicks, step \in NSteps, q \in NQuantities, tp \in NTps, sl \in NStops :
         /\ tp > sl
         /\ nin = [tick |-> tick, step |-> step, min_notional |-> DefaultMinNotional,
                   quantity |-> round_step(q, step),
                   tp |-> round_tick(tp, tick), sl_trigger |-> round_tick(sl, tick),
                   sl_limit |-> round_tick(sl - tick, tick)]
    /\ nby = "none"
    /\ nout = NoReq

\* place_oco called with the quantity as it is (place_oco_after_fill, override)
NotionalPlaceOco ==
    /\ npc = "ready"
    /\ nout' = PlaceOcoOn(nin.tick, nin.step, nin.min_notional, nin.quantity,
                          nin.tp, nin.sl_trigger, nin.sl_limit)
    /\ nby' = "place_oco"
    /\ npc' = "sent"
    /\ UNCHANGED <<outsideNotional, nin>>

\* an attempt of place_bracket_atomic: its own block, then place_oco
NotionalPbaAttempt ==
    /\ npc = "ready"
    /\ nout' = PlaceOcoOn(nin.tick, nin.step, nin.min_notional,
                          PbaNotionalQtyOn(nin.step, nin.min_notional, nin.quantity,
                                           nin.tp, nin.sl_trigger),
                          nin.tp, nin.sl_trigger, nin.sl_limit)
    /\ nby' = "pba"
    /\ npc' = "sent"
    /\ UNCHANGED <<outsideNotional, nin>>

NotionalNext ==
    \/ NotionalPlaceOco
    \/ NotionalPbaAttempt

SpecNotional == NotionalInit /\ [][NotionalNext]_vars

\* ---------------------------------------------------------- the quantizers
\* values and grid units in hundredths: 789 is 7.89, unit 100 is 1.0
QuantValues == {0, 7, 30, 99, 100, 250, 789, 1000, 1234}
QuantUnits == {1, 10, 25, 50, 100, 500}

\* q_dec, p_dec of place_oco: math.floor(v / step) * step
q_dec(v, step) == (v \div step) * step

\* the last decimal place of str(step) for a float step: 1.0, 5.0, 0.5 and 0.1
\* print with one decimal, 0.25 and 0.01 with two
LastPlace(step) == IF step % 10 = 0 THEN 10 ELSE 1

\* Decimal(str(q)).quantize(Decimal(str(step)), rounding=ROUND_DOWN): q cut to
\* the number of decimal places str(step) has
round_amt(q, step) ==
    IF step <= 0 THEN q ELSE (q \div LastPlace(step)) * LastPlace(step)

QuantInit ==
    /\ OrderFresh
    /\ WatchOff
    /\ DupOff
    /\ LoopOff
    /\ DogOff
    /\ ClsOff
    /\ HealthOff
    /\ RmwOff
    /\ HitOff
    /\ RaceOff
    /\ GateOff
    /\ NtfOff
    /\ TrkOff
    /\ MonOff
    /\ AuditOff
    /\ FrameOff
    /\ BuyOff
    /\ ShiftOff
    /\ NotionalOff
    /\ qpc = "ready"
    /\ qin \in [value : QuantValues, unit : QuantUnits]
    /\ qfn = "none"
    /\ qout = [once |-> 0, twice |-> 0]

QuantRan(fn, once, twice) ==
    /\ qfn' = fn
    /\ qout' = [once |-> once, twice |-> twice]
    /\ qpc' = "done"
    /\ UNCHANGED <<outsideQuant, qin>>

QuantRoundTick ==
    /\ qpc = "ready"
    /\ QuantRan("_round_tick", round_tick(qin.value, qin.unit),
                 round_tick(round_tick(qin.value, qin.unit), qin.unit))

QuantRoundStep ==
    /\ qpc = "ready"
    /\ QuantRan("_round_step", round_step(qin.value, qin.unit),
                 round_step(round_step(qin.value, qin.unit), qin.unit))

QuantDec ==
    /\ qpc = "ready"
    /\ QuantRan("q_dec", q_dec(qin.value, qin.unit),
                 q_dec(q_dec(qin.value, qin.unit), qin.unit))

QuantRoundAmt ==
    /\ qpc = "ready"
    /\ QuantRan("round_amt", round_amt(qin.value, qin.unit),
                 round_amt(round_amt(qin.value, qin.unit), qin.unit))

QuantNext ==
    \/ QuantRoundTick
    \/ QuantRoundStep
    \/ QuantDec
    \/ QuantRoundAmt

SpecQuant == QuantInit /\ [][QuantNext]_vars

\* ------------------------------------------- track_oco, untrack_oco, list
\* the ids callers pass: ids the exchange issued, and None (-1) when the
\* response held no orderListId
NoneId == -1
CallIds == {1, 2, NoneId}
TrkSymbols == {"AAA/USDT", "BBB/USDT"}
TrkEntries == {0, 100}

\* str(oco_id)
StrOf(id) == CASE id = 1 -> "1" [] id = 2 -> "2" [] OTHER -> "None"
\* int(k) succeeds
IsIntKey(k) == k \in {"1", "2"}
\* int(k)
IntOf(k) == CASE k = "1" -> 1 [] k = "2" -> 2

\* {int(k): v for k, v in d.items()}
ListTracked(d) ==
    IF \A k \in DOMAIN d : IsIntKey(k)
    THEN [raised |-> FALSE,
          map |-> [i \in {IntOf(k) : k \in DOMAIN d} |-> d[StrOf(i)]]]
    ELSE [raised |-> TRUE, map |-> [i \in {} |-> 0]]

TrkInit ==
    /\ OrderFresh
    /\ WatchOff
    /\ DupOff
    /\ LoopOff
    /\ DogOff
    /\ ClsOff
    /\ HealthOff
    /\ RmwOff
    /\ HitOff
    /\ RaceOff
    /\ GateOff
    /\ NtfOff
    /\ MonOff
    /\ AuditOff
    /\ FrameOff
    /\ BuyOff
    /\ ShiftOff
    /\ NotionalOff
    /\ QuantOff
    /\ tfile = [k \in {} |-> 0]
    /\ tprev = [k \in {} |-> 0]
    /\ tlast = NoCall
    /\ tlist = NoList
    /\ tlisted = FALSE

\* track_oco(symbol, oco_id, entry_price)
TrkTrack(symbol, id, entry) ==
    /\ tfile' = [k \in DOMAIN tfile \cup {StrOf(id)} |->
                    IF k = StrOf(id) THEN [symbol |-> symbol, entry |-> entry]
                    ELSE tfile[k]]
    /\ tprev' = tfile
    /\ tlast' = [op |-> "track", id |-> id, symbol |-> symbol, entry |-> entry]
    /\ tlist' = NoList
    /\ tlisted' = FALSE
    /\ UNCHANGED outsideTrk

\* untrack_oco(oco_id)
TrkUntrack(id) ==
    /\ tfile' = IF StrOf(id) \in DOMAIN tfile
                THEN [k \in DOMAIN tfile \ {StrOf(id)} |-> tfile[k]]
                ELSE tfile
    /\ tprev' = tfile
    /\ tlast' = [op |-> "untrack", id |-> id, symbol |-> "none", entry |-> 0]
    /\ tlist' = NoList
    /\ tlisted' = FALSE
    /\ UNCHANGED outsideTrk

\* list_tracked_oco()
TrkList ==
    /\ ~tlisted
    /\ tlist' = ListTracked(tfile)
    /\ tlisted' = TRUE
    /\ UNCHANGED <<outsideTrk, tfile, tprev, tlast>>

\* the process ends and starts again: nothing of the tracker is held in memory
TrkRestart ==
    /\ tlast.op # "restart"
    /\ tprev' = tfile
    /\ tlast' = [op |-> "restart", id |-> 0, symbol |-> "none", entry |-> 0]
    /\ tlist' = NoList
    /\ tlisted' = FALSE
    /\ UNCHANGED <<outsideTrk, tfile>>

TrkNext ==
    \/ \E symbol \in TrkSymbols, id \in CallIds, entry \in TrkEntries :
         TrkTrack(symbol, id, entry)
    \/ \E id \in CallIds : TrkUntrack(id)
    \/ TrkList
    \/ TrkRestart

SpecTrk == TrkInit /\ [][TrkNext]_vars

\* --------------------------------------------------- Notifier.send
\* notification points, by what the caller does after the await
Sites == {"pair_resolved", "bracket_set", "tp_hit", "flattened", "execution_failed"}

\* send_message attempts after the first: services.Notifier has one
\* fallback, signal_trader.Notifier two
Fallbacks(i) == IF i = "trader_core" THEN 1 ELSE 2

\* the except clause around attempt number t catches what it raises
CaughtButLast(i, t) == t < Fallbacks(i)
Caught(i, t) == TRUE

\* the statements of the caller that follow the await
After(site, tr) ==
    CASE site = "bracket_set" ->
           [tracker |-> TrackOco(tr, IssuedId, 100), outcome |-> "oco_placed"]
      [] site = "tp_hit" ->
           [tracker |-> [k \in DOMAIN tr \ {IssuedId} |-> tr[k]], outcome |-> "untracked"]
      [] site = "execution_failed" ->
           [tracker |-> tr, outcome |-> "error_logged"]
      [] OTHER ->
           [tracker |-> tr, outcome |-> "continues"]

NtfInit ==
    /\ OrderIdle
    /\ tracker \in {[k \in {} |-> 0], [k \in {IssuedId} |-> 100],
                    [k \in {IssuedId, "oco2"} |-> 100]}
    /\ WatchOff
    /\ DupOff
    /\ LoopOff
    /\ DogOff
    /\ ClsOff
    /\ HealthOff
    /\ RmwOff
    /\ HitOff
    /\ RaceOff
    /\ GateOff
    /\ MonOff
    /\ AuditOff
    /\ FrameOff
    /\ BuyOff
    /\ ShiftOff
    /\ NotionalOff
    /\ QuantOff
    /\ TrkOff
    /\ spc = "at_call"
    /\ nsite \in Sites
    /\ ntry = 0
    /\ ncache \in BOOLEAN
    /\ ndelivered = FALSE
    /\ nraised = FALSE
    /\ nbefore = tracker
    /\ noutcome = "none"

\* await self.n.send(...)
NtfCall ==
    /\ spc = "at_call"
    /\ spc' = "sending"
    /\ ntry' = 0
    /\ UNCHANGED <<outsideNtf, tracker, nsite, ncache, ndelivered, nraised, nbefore, noutcome>>

\* one attempt: get_entity when nothing is cached, read_settings_dict,
\* send_message; any of them may raise
NtfAttempt ==
    /\ spc = "sending"
    /\ \/ \* send_message returned
          /\ ndelivered' = TRUE
          /\ ncache' = (ncache \/ ntry = 0)
          /\ spc' = "returned"
          /\ UNCHANGED <<ntry, nraised>>
       \/ \* get_entity raised
          /\ ntry = 0 /\ ~ncache
          /\ IF Caught(impl, ntry)
             THEN /\ ntry' = ntry + 1
                  /\ UNCHANGED <<spc, nraised>>
             ELSE /\ nraised' = TRUE
                  /\ spc' = "returned"
                  /\ UNCHANGED ntry
          /\ UNCHANGED <<ncache, ndelivered>>
       \/ \* int(chat_id), read_settings_dict or send_message raised
          /\ ncache' = (ncache \/ ntry = 0)
          /\ IF ~Caught(impl, ntry)
             THEN /\ nraised' = TRUE
                  /\ spc' = "returned"
                  /\ UNCHANGED ntry
             ELSE IF ntry < Fallbacks(impl)
                  THEN /\ ntry' = ntry + 1
                       /\ UNCHANGED <<spc, nraised>>
                  ELSE \* the last handler prints and the call returns
                       /\ spc' = "returned"
                       /\ UNCHANGED <<ntry, nraised>>
          /\ UNCHANGED ndelivered
    /\ UNCHANGED <<outsideNtf, tracker, nsite, nbefore, noutcome>>

\* the caller after the await
NtfResume ==
    /\ spc = "returned"
    /\ spc' = "resumed"
    /\ IF nraised
       THEN /\ noutcome' = "raised"
            /\ UNCHANGED tracker
       ELSE /\ tracker' = After(nsite, tracker).tracker
            /\ noutcome' = After(nsite, tracker).outcome
    /\ UNCHANGED <<outsideNtf, nsite, ntry, ncache, ndelivered, nraised, nbefore>>

\* the caller reaches its next notification point
NtfAgain ==
    /\ spc = "resumed"
    /\ ~nraised
    /\ \E site \in Sites :
         /\ nsite' = site
         /\ spc' = "at_call"
         /\ ntry' = 0
         /\ ndelivered' = FALSE
         /\ nbefore' = tracker
         /\ noutcome' = "none"
    /\ UNCHANGED <<outsideNtf, tracker, ncache, nraised>>

NtfNext ==
    \/ NtfCall
    \/ NtfAttempt
    \/ NtfResume
    \/ NtfAgain

SpecNtf == NtfInit /\ [][NtfNext]_vars

\* ------------------------------------------- on_signal, the pre-entry gates
\* Settings.min_notional_usdt, max_slippage_pct (per mille), and
\* default_sl_pct + max_slippage_pct (per mille)
MinNotionalUsdt == 5
MaxSlippagePerMille == 15
EffectiveSlPerMille == 115
GateEntry == 1000
GateStops == {NoStop, 900}
GateSpends == {3, 6, 600}
GateLasts == {1000, 1100}
GateSteps == {1, 100}
PreEntryGates == {"pair_not_found", "market_cap", "duplicate", "not_enough_quote",
                  "slippage", "amount_zero", "dry_run"}

\* abs(last - sig.entry) / sig.entry <= s.max_slippage_pct
Acceptable(last, entry) == Abs(last - entry) * 1000 <= entry * MaxSlippagePerMille
\* float(sig.entry) * (1.0 - effective_sl_pct)
DefaultStop(entry) == (entry * (1000 - EffectiveSlPerMille)) \div 1000
\* if amount <= 0
AmountBelowZero(amount) == amount < 0
AmountIsZero(amount) == amount <= 0
\* round_amt(spend / px_for_size, amt_step), in hundredths
GateAmount(spend, px, step) == round_amt((spend * 100) \div px, step)

GateInit ==
    /\ OrderIdle
    /\ tracker \in {[k \in {} |-> 0], [k \in {"oco2"} |-> 100]}
    /\ WatchOff
    /\ DupOff
    /\ LoopOff
    /\ DogOff
    /\ ClsOff
    /\ HealthOff
    /\ RmwOff
    /\ HitOff
    /\ RaceOff
    /\ MonOff
    /\ AuditOff
    /\ FrameOff
    /\ BuyOff
    /\ ShiftOff
    /\ NotionalOff
    /\ QuantOff
    /\ TrkOff
    /\ NtfOff
    /\ gpc = "pair"
    /\ gsig \in [entry : {GateEntry}, stop : GateStops, tp1 : {1100}]
    /\ ghanded = gsig
    /\ gcfg \in [dry_run : BOOLEAN, use_limit : BOOLEAN, cap_filter : BOOLEAN]
    /\ gfacts = NoFacts
    /\ gend = "running"
    /\ gsent = {}
    /\ gbefore = tracker

GateReturn(gate) ==
    /\ gpc' = "ended"
    /\ gend' = gate

\* pair resolution: markets lookup, find_market
GatePair ==
    /\ gpc = "pair"
    /\ \E found \in BOOLEAN :
         /\ gfacts' = [gfacts EXCEPT !.pair_found = found]
         /\ IF found
            THEN gpc' = "cap" /\ UNCHANGED gend
            ELSE GateReturn("pair_not_found")
    /\ UNCHANGED <<outsideGate, tracker, gsig, ghanded, gcfg, gsent, gbefore>>

\* market cap filter
GateCap ==
    /\ gpc = "cap"
    /\ IF gcfg.cap_filter
       THEN \E passes \in BOOLEAN :
              /\ gfacts' = [gfacts EXCEPT !.cap_ok = passes]
              /\ IF passes
                 THEN gpc' = "dup" /\ UNCHANGED gend
                 ELSE GateReturn("market_cap")
       ELSE /\ gpc' = "dup"
            /\ UNCHANGED <<gfacts, gend>>
    /\ UNCHANGED <<outsideGate, tracker, gsig, ghanded, gcfg, gsent, gbefore>>

\* duplicate signal protection
GateDup ==
    /\ gpc = "dup"
    /\ \E seen \in BOOLEAN :
         /\ gfacts' = [gfacts EXCEPT !.dup = seen]
         /\ IF seen
            THEN GateReturn("duplicate")
            ELSE gpc' = "notional" /\ UNCHANGED gend
    /\ UNCHANGED <<outsideGate, tracker, gsig, ghanded, gcfg, gsent, gbefore>>

\* fetch_free_quote, spend = free_q * cap_pct, minimum notional
GateNotional ==
    /\ gpc = "notional"
    /\ \/ \* fetch_free_quote raised
          /\ GateReturn("raised")
          /\ UNCHANGED gfacts
       \/ \E spend \in GateSpends :
            /\ gfacts' = [gfacts EXCEPT !.spend = spend]
            /\ IF ~gcfg.dry_run /\ spend < MinNotionalUsdt
               THEN GateReturn("not_enough_quote")
               ELSE gpc' = "price" /\ UNCHANGED gend
    /\ UNCHANGED <<outsideGate, tracker, gsig, ghanded, gcfg, gsent, gbefore>>

\* fetch_price, acceptable, the default stop, the slippage gate
GatePrice ==
    /\ gpc = "price"
    /\ \/ \* fetch_price raised
          /\ GateReturn("raised")
          /\ UNCHANGED <<gfacts, gsig>>
       \/ \E last \in GateLasts :
            /\ gfacts' = [gfacts EXCEPT !.last = last]
            /\ gsig' = IF gsig.stop = NoStop
                       THEN [gsig EXCEPT !.stop = DefaultStop(gsig.entry)]
                       ELSE gsig
            /\ IF ~Acceptable(last, gsig.entry) /\ ~gcfg.use_limit
               THEN GateReturn("slippage")
               ELSE gpc' = "amount" /\ UNCHANGED gend
    /\ UNCHANGED <<outsideGate, tracker, ghanded, gcfg, gsent, gbefore>>

\* lot_step_info, round_amt, the zero-amount gate, then the dry_run branch
GateSize ==
    /\ gpc = "amount"
    /\ \/ \* lot_step_info raised
          /\ GateReturn("raised")
          /\ UNCHANGED gfacts
       \/ \E step \in GateSteps :
            LET px == IF Acceptable(gfacts.last, gsig.entry) \/ ~gcfg.use_limit
                      THEN gfacts.last ELSE gsig.entry
                amount == GateAmount(gfacts.spend, px, step)
            IN  /\ gfacts' = [gfacts EXCEPT !.amount = amount]
                /\ IF AmountIsZero(amount)
                   THEN GateReturn("amount_zero")
                   ELSE IF gcfg.dry_run
                        THEN GateReturn("dry_run")
                        ELSE gpc' = "live" /\ UNCHANGED gend
    /\ UNCHANGED <<outsideGate, tracker, gsig, ghanded, gcfg, gsent, gbefore>>

\* live execution: the entry order, the bracket, track_oco
GateLive ==
    /\ gpc = "live"
    /\ GateReturn("live")
    /\ \/ /\ gsent' = {"buy"}
          /\ UNCHANGED tracker
       \/ /\ gsent' = {"buy", "oco"}
          /\ tracker' = TrackOco(tracker, IssuedId, gfacts.last)
       \/ /\ gsent' = {"buy", "sell"}
          /\ UNCHANGED tracker
    /\ UNCHANGED <<outsideGate, gsig, ghanded, gcfg, gfacts, gbefore>>

GateNext ==
    \/ GatePair
    \/ GateCap
    \/ GateDup
    \/ GateNotional
    \/ GatePrice
    \/ GateSize
    \/ GateLive

SpecGate == GateInit /\ [][GateNext]_vars

\* ------------------------------- on_signal and flatten_watchdog interleaved
RacePaths == {"limit", "trailing", "bracket", "override"}
RaceQtys == {4, 6}
RacePartials == {2}
\* the asset is priced above the dust limit and qty >= step
RaceWorthSelling(qty) == qty >= StepSize
\* tp_present, sl_present of the watchdog
RaceProtected(types) ==
    \E t \in types : t \in {"TAKE_PROFIT", "TAKE_PROFIT_LIMIT", "STOP_LOSS", "STOP_LOSS_LIMIT"}
\* the run holds a filled entry and has not placed its protective order
RaceWindows == {"limit_thread", "sl_thread", "takeover"}

RaceInit ==
    /\ OrderFresh
    /\ WatchOff
    /\ DupOff
    /\ LoopOff
    /\ DogOff
    /\ ClsOff
    /\ HealthOff
    /\ RmwOff
    /\ HitOff
    /\ MonOff
    /\ AuditOff
    /\ FrameOff
    /\ BuyOff
    /\ ShiftOff
    /\ NotionalOff
    /\ QuantOff
    /\ TrkOff
    /\ NtfOff
    /\ GateOff
    /\ rpath \in RacePaths
    /\ rpc = "start"
    /\ rfree = 0
    /\ rorders = {}
    /\ rheld = 0
    /\ rdog = "idle"
    /\ rdq = 0
    /\ rsoldAt = {}

\* await asyncio.to_thread(execute_limit_buy): the order rests, the loop is free
RaceLimitSubmit ==
    /\ rpc = "start" /\ rpath = "limit"
    /\ rpc' = "limit_thread"
    /\ rorders' = rorders \cup {"LIMIT"}
    /\ UNCHANGED <<outsideRace, rheld, rpath, rfree, rdog, rdq, rsoldAt>>

\* the exchange executes the resting limit buy, in part or whole
RaceExchangeFills ==
    /\ rpc = "limit_thread"
    /\ "LIMIT" \in rorders
    /\ \/ \E q \in RacePartials :
            /\ rfree = 0
            /\ rfree' = q
            /\ UNCHANGED rorders
       \/ \E q \in RaceQtys :
            /\ q > rfree
            /\ rfree' = q
            /\ rorders' = rorders \ {"LIMIT"}
    /\ UNCHANGED <<outsideRace, rheld, rpath, rpc, rdog, rdq, rsoldAt>>

\* the thread returns; FILLED: place_oco_after_fill without an await;
\* otherwise cancel and "not filled"
RaceLimitReturn ==
    /\ rpc = "limit_thread"
    /\ IF "LIMIT" \in rorders
       THEN /\ rorders' = rorders \ {"LIMIT"}
            /\ rpc' = "ended"
            /\ UNCHANGED <<rfree, rheld>>
       ELSE \/ /\ rfree > 0
               /\ rorders' = rorders \cup {"TAKE_PROFIT_LIMIT", "STOP_LOSS_LIMIT"}
               /\ rheld' = rfree
               /\ rfree' = 0
               /\ rpc' = "protected"
            \/ \* the bracket was rejected
               /\ rpc' = "ended"
               /\ UNCHANGED <<rfree, rorders, rheld>>
    /\ UNCHANGED <<outsideRace, rpath, rdog, rdq, rsoldAt>>

\* place_bracket_atomic, and execute_market_buy followed by the override
\* bracket: the run does not await between the fill and the bracket
RaceSynchronous ==
    /\ rpc = "start" /\ rpath \in {"bracket", "override"}
    /\ \/ /\ rorders' = rorders \cup {"TAKE_PROFIT_LIMIT", "STOP_LOSS_LIMIT"}
          /\ rpc' = "protected"
          /\ \E q \in RaceQtys : rheld' = q
          /\ UNCHANGED rfree
       \/ \* the bracket was rejected and the flatten failed
          \E q \in RaceQtys :
            /\ rfree' = q
            /\ rpc' = "ended"
            /\ UNCHANGED <<rorders, rheld>>
    /\ UNCHANGED <<outsideRace, rpath, rdog, rdq, rsoldAt>>

\* trailing_tp: execute_market_buy, then await asyncio.to_thread(place_stop_loss_market_sell)
RaceTrailingBuy ==
    /\ rpc = "start" /\ rpath = "trailing"
    /\ \E q \in RaceQtys : rfree' = q
    /\ rpc' = "sl_thread"
    /\ UNCHANGED <<outsideRace, rpath, rorders, rheld, rdog, rdq, rsoldAt>>

\* the stop-loss thread returns
RaceStopPlaced ==
    /\ rpc = "sl_thread"
    /\ \/ /\ rfree > 0
          /\ rorders' = rorders \cup {"STOP_LOSS"}
          /\ rheld' = rfree
          /\ rfree' = 0
          /\ rpc' = "watching"
       \/ \* the order was rejected: on_signal's handler
          /\ rpc' = "ended"
          /\ UNCHANGED <<rfree, rorders, rheld>>
    /\ UNCHANGED <<outsideRace, rpath, rdog, rdq, rsoldAt>>

\* activation hit: await asyncio.to_thread(cancel_order)
RaceTakeoverCancel ==
    /\ rpc = "watching"
    /\ "STOP_LOSS" \in rorders
    /\ rorders' = rorders \ {"STOP_LOSS"}
    /\ rfree' = rfree + rheld
    /\ rheld' = 0
    /\ rpc' = "takeover"
    /\ UNCHANGED <<outsideRace, rpath, rdog, rdq, rsoldAt>>

\* await asyncio.to_thread(place_trailing_take_profit_market_sell)
RaceTrailingSubmit ==
    /\ rpc = "takeover"
    /\ \/ /\ rfree > 0
          /\ rorders' = rorders \cup {"TAKE_PROFIT"}
          /\ rheld' = rfree
          /\ rfree' = 0
          /\ rpc' = "protected"
       \/ \* rejected: "Watcher Error", the watcher polls again
          /\ rpc' = "unwatched"
          /\ UNCHANGED <<rfree, rorders, rheld>>
    /\ UNCHANGED <<outsideRace, rpath, rdog, rdq, rsoldAt>>

\* one pass of the watchdog up to `await notifier.send(client, msg)`
RaceDogCheck ==
    /\ rdog = "idle"
    /\ rpc # "start"
    /\ rfree > 0
    /\ RaceWorthSelling(rfree)
    /\ ~RaceProtected(rorders)
    /\ rdog' = "notify"
    /\ rdq' = rfree
    /\ UNCHANGED <<outsideRace, rpath, rpc, rfree, rorders, rheld, rsoldAt>>

\* create_order(sym, "market", "sell", qty) after the send
RaceDogSell ==
    /\ rdog = "notify"
    /\ rdog' = "idle"
    /\ rdq' = 0
    /\ IF rfree >= rdq
       THEN /\ rfree' = rfree - rdq
            /\ rsoldAt' = rsoldAt \cup {rpc}
       ELSE \* insufficient balance: flatten_error
            UNCHANGED <<rfree, rsoldAt>>
    /\ UNCHANGED <<outsideRace, rpath, rpc, rorders, rheld>>

RaceNext ==
    \/ RaceLimitSubmit
    \/ RaceExchangeFills
    \/ RaceLimitReturn
    \/ RaceSynchronous
    \/ RaceTrailingBuy
    \/ RaceStopPlaced
    \/ RaceTakeoverCancel
    \/ RaceTrailingSubmit
    \/ RaceDogCheck
    \/ RaceDogSell

SpecRace == RaceInit /\ [][RaceNext]_vars

\* --------------------- monitor_orders_loop and monitor_tracked_oco_loop
HitBrackets == {"A", "B"}
HitLegs == {"TP", "SL"}

HitInit ==
    /\ OrderFresh
    /\ WatchOff
    /\ DupOff
    /\ LoopOff
    /\ DogOff
    /\ ClsOff
    /\ HealthOff
    /\ RmwOff
    /\ MonOff
    /\ AuditOff
    /\ FrameOff
    /\ BuyOff
    /\ ShiftOff
    /\ NotionalOff
    /\ QuantOff
    /\ TrkOff
    /\ NtfOff
    /\ GateOff
    /\ RaceOff
    /\ hfilled = [b \in HitBrackets |-> "none"]
    /\ hopen = [b \in HitBrackets |-> HitLegs]
    /\ hmtracked = [b \in HitBrackets |-> {}]
    /\ htracker = HitBrackets
    /\ hnotes = [b \in HitBrackets |-> <<>>]
    /\ hevents = [b \in HitBrackets |-> <<>>]

\* one leg fills; the exchange cancels the other leg of the order list
HitExchangeFill(b, leg) ==
    /\ hfilled[b] = "none"
    /\ hfilled' = [hfilled EXCEPT ![b] = leg]
    /\ hopen' = [hopen EXCEPT ![b] = {}]
    /\ UNCHANGED <<outsideHit, hmtracked, htracker, hnotes, hevents>>

\* monitor_orders_loop, "Track new OCO orders": every open leg of a type it
\* recognises enters tracked_orders
HitMonTrack ==
    /\ \E b \in HitBrackets : hopen[b] \ hmtracked[b] # {}
    /\ hmtracked' = [b \in HitBrackets |-> hmtracked[b] \cup hopen[b]]
    /\ UNCHANGED <<outsideHit, hfilled, hopen, htracker, hnotes, hevents>>

\* monitor_orders_loop, "Detect filled orders" for the legs of one bracket:
\* pop, fetch_order, and for a closed order with a fill the notification
\* and the order_filled event
HitMonConfirm(b) ==
    /\ hmtracked[b] \ hopen[b] # {}
    /\ hmtracked' = [hmtracked EXCEPT ![b] = hmtracked[b] \cap hopen[b]]
    /\ \/ \* fetch_order raised for the filled leg
          UNCHANGED <<hnotes, hevents>>
       \/ /\ hfilled[b] \in hmtracked[b]
          /\ hnotes' = [hnotes EXCEPT ![b] = Append(@, "fill_monitor")]
          /\ hevents' = [hevents EXCEPT ![b] = Append(@, "fill_monitor")]
    /\ UNCHANGED <<outsideHit, hfilled, hopen, htracker>>

\* monitor_tracked_oco_loop for one tracked bracket: get_all_orders, a FILLED
\* child of the order list, the notification, the event, untrack_oco
HitClsVisit(b) ==
    /\ b \in htracker
    /\ hfilled[b] # "none"
    /\ \/ \* get_all_orders raised, or the child is not among the orders returned
          UNCHANGED <<htracker, hnotes, hevents>>
       \/ /\ hnotes' = [hnotes EXCEPT ![b] = Append(@, "oco_classifier")]
          /\ hevents' = [hevents EXCEPT ![b] = Append(@, "oco_classifier")]
          /\ htracker' = htracker \ {b}
    /\ UNCHANGED <<outsideHit, hfilled, hopen, hmtracked>>

HitNext ==
    \/ \E b \in HitBrackets, leg \in HitLegs : HitExchangeFill(b, leg)
    \/ HitMonTrack
    \/ \E b \in HitBrackets : HitMonConfirm(b)
    \/ \E b \in HitBrackets : HitClsVisit(b)

SpecHit == HitInit /\ [][HitNext]_vars

\* -------------------------- track_oco and untrack_oco on one event loop
RmwTasks == {"orchestrator", "oco_classifier"}
\* the orchestrator tracks new brackets, the classifier untracks old ones
NewIds == {"oco1", "oco2"}
OldIds == {"old1", "old2"}
RmwOrders(ids) == {q \in [1..2 -> ids] : q[1] # q[2]} \cup {<<i>> : i \in ids}

\* there is an await between _read_oco_tracker and _write_oco_tracker
YieldsInside(point) == TRUE
Yields(point) == point = "await"

RmwInit ==
    /\ OrderFresh
    /\ WatchOff
    /\ DupOff
    /\ LoopOff
    /\ DogOff
    /\ ClsOff
    /\ HealthOff
    /\ MonOff
    /\ AuditOff
    /\ FrameOff
    /\ BuyOff
    /\ ShiftOff
    /\ NotionalOff
    /\ QuantOff
    /\ TrkOff
    /\ NtfOff
    /\ GateOff
    /\ RaceOff
    /\ HitOff
    /\ \E keys \in {OldIds, {"old1"}} : ufile = [k \in keys |-> 100]
    /\ \E a \in RmwOrders(NewIds), b \in RmwOrders(OldIds) :
         utodo = [t \in RmwTasks |-> IF t = "orchestrator" THEN a ELSE b]
    /\ upc = [t \in RmwTasks |-> "await"]
    /\ ulocal = [t \in RmwTasks |-> [k \in {} |-> 0]]
    /\ uloop = "none"
    /\ udone = [t \in RmwTasks |-> {}]

\* the event loop lets task t run
RmwMayRun(t) == uloop \in {"none", t}

\* d = _read_oco_tracker()
RmwRead(t) ==
    /\ RmwMayRun(t)
    /\ upc[t] = "await"
    /\ utodo[t] # <<>>
    /\ ulocal' = [ulocal EXCEPT ![t] = ufile]
    /\ upc' = [upc EXCEPT ![t] = "read"]
    /\ uloop' = IF Yields("read") THEN "none" ELSE t
    /\ UNCHANGED <<outsideRmw, ufile, utodo, udone>>

\* track_oco: d[str(oco_id)] = {...}; _write_oco_tracker(d)
\* untrack_oco: if str(oco_id) in d: d.pop(...); _write_oco_tracker(d)
RmwWrite(t) ==
    /\ RmwMayRun(t)
    /\ upc[t] = "read"
    /\ LET id == Head(utodo[t])
       IN  /\ ufile' = IF t = "orchestrator"
                       THEN TrackOco(ulocal[t], id, 100)
                       ELSE IF id \in DOMAIN ulocal[t]
                            THEN Untrack(ulocal[t], id)
                            ELSE ufile
           /\ udone' = [udone EXCEPT ![t] = @ \cup {id}]
    /\ utodo' = [utodo EXCEPT ![t] = Tail(@)]
    /\ upc' = [upc EXCEPT ![t] = "await"]
    /\ uloop' = "none"
    /\ UNCHANGED <<outsideRmw, ulocal>>

RmwNext ==
    \/ \E t \in RmwTasks : RmwRead(t)
    \/ \E t \in RmwTasks : RmwWrite(t)

SpecRmw == RmwInit /\ [][RmwNext]_vars

\* ------------------------------------------------------ watchdog.monitor
DEBOUNCE_LIMIT == 5
\* most consecutive misses followed
MaxMisses == 7

\* state of lines 158-163 and 220-224
Debounced(misses) == IF misses >= DEBOUNCE_LIMIT THEN "backend_down" ELSE "backend_ok"

HealthInit ==
    /\ OrderFresh
    /\ WatchOff
    /\ DupOff
    /\ LoopOff
    /\ DogOff
    /\ ClsOff
    /\ MonOff
    /\ AuditOff
    /\ FrameOff
    /\ BuyOff
    /\ ShiftOff
    /\ NotionalOff
    /\ QuantOff
    /\ TrkOff
    /\ NtfOff
    /\ GateOff
    /\ RaceOff
    /\ HitOff
    /\ RmwOff
    /\ hpc = "top"
    /\ backend_misses = 0
    /\ last_backend_state = "None"
    /\ last_ui_server_state = "None"
    /\ hstate = "none"
    /\ hprev = "none"
    /\ hstatus = "none"
    /\ hwritten = FALSE
    /\ halerts = 0

\* the backend ping and the debounce counter
HealthPing ==
    /\ hpc = "top"
    /\ \E backend_alive \in BOOLEAN :
         /\ backend_alive \/ backend_misses < MaxMisses
         /\ backend_misses' = IF backend_alive THEN 0 ELSE backend_misses + 1
         /\ hstate' = Debounced(IF backend_alive THEN 0 ELSE backend_misses + 1)
    /\ hprev' = hstate
    /\ hwritten' = FALSE
    /\ halerts' = 0
    /\ hpc' = "ui_server"
    /\ UNCHANGED <<outsideHealth, last_backend_state, last_ui_server_state, hstatus>>

\* UI server up/down; when it is down: sleep and continue
HealthUiServer ==
    /\ hpc = "ui_server"
    /\ \E ui_server_alive \in BOOLEAN :
         /\ last_ui_server_state' = IF ui_server_alive THEN "up" ELSE "down"
         /\ hpc' = IF ui_server_alive THEN "status" ELSE "sleep"
    /\ UNCHANGED <<outsideHealth, backend_misses, last_backend_state, hstate, hprev,
                   hstatus, hwritten, halerts>>

\* update_status, and send_telegram when the state differs from last_backend_state
HealthStatus ==
    /\ hpc = "status"
    /\ hstatus' = Debounced(backend_misses)
    /\ hwritten' = TRUE
    /\ IF Debounced(backend_misses) # last_backend_state
       THEN /\ halerts' = halerts + 1
            /\ last_backend_state' = Debounced(backend_misses)
       ELSE UNCHANGED <<halerts, last_backend_state>>
    /\ hpc' = "checks"
    /\ UNCHANGED <<outsideHealth, backend_misses, last_ui_server_state, hstate, hprev>>

\* the internet check, and every 15 minutes the Binance check with its own
\* update_status
HealthChecks ==
    /\ hpc = "checks"
    /\ \/ UNCHANGED hstatus
       \/ hstatus' \in {"binance_ok", "binance_blocked"}
    /\ hpc' = "sleep"
    /\ UNCHANGED <<outsideHealth, backend_misses, last_backend_state, last_ui_server_state,
                   hstate, hprev, hwritten, halerts>>

\* await asyncio.sleep(CHECK_INTERVAL)
HealthSleep ==
    /\ hpc = "sleep"
    /\ hpc' = "top"
    /\ UNCHANGED <<outsideHealth, backend_misses, last_backend_state, last_ui_server_state,
                   hstate, hprev, hstatus, hwritten, halerts>>

HealthNext ==
    \/ HealthPing
    \/ HealthUiServer
    \/ HealthStatus
    \/ HealthChecks
    \/ HealthSleep

SpecHealth == HealthInit /\ [][HealthNext]_vars

Next ==
    \/ LimitBuySubmit
    \/ LimitBuyPoll
    \/ LimitBuyCancel
    \/ PbaStart
    \/ MarketBuySubmit
    \/ MarketBuyPoll
    \/ PbaValidate
    \/ PbaBalancePoll
    \/ PbaPrepare
    \/ PbaAttempt
    \/ PbaVerify
    \/ SigTrailing
    \/ SigOverrideCore
    \/ SigOverridePrepare
    \/ SigOverrideAttempt
    \/ PoafStart
    \/ PoafBalancePoll
    \/ PoafPlace
    \/ SigNotify

Spec == Init /\ [][Next]_vars


\* ================================================================ claims
PbaEnded == UsesBracket /\ pbaOutcome # "none"
PbaLog == SelectSeq(ocoLog, LAMBDA e : e.by = "pba")
Entries == {ocoLog[i] : i \in DOMAIN ocoLog}
SoldFilledQty == \E i \in DOMAIN sells : sells[i].qty = filled_qty

\* C1: when place_bracket_atomic has ended after its market buy filled,
\* an OCO accepted by the exchange exists or a market sell of exactly the
\* filled quantity was attempted.
C1_NoNakedPosition ==
    (PbaEnded /\ position > 0) => (liveOco # {} \/ SoldFilledQty)

\* C2: when on_signal has finished after an entry order filled, a protective
\* order (OCO or fixed stop-loss) was accepted by the exchange or a market
\* sell was issued.
C2_SignalEndsProtected ==
    (sigOutcome # "running" /\ position > 0)
        => (liveOco # {} \/ stopOrder \/ sells # <<>>)

\* C3: every normal return of place_bracket_atomic carries a non-null
\* bracket id of an OCO the exchange accepted.
C3_ReturnCarriesBracketId ==
    (UsesBracket /\ pbaOutcome = "returned")
        => (res_oco_id # "None" /\ res_oco_id \in liveOco)

\* C4: once place_bracket_atomic is past its validation with a filled entry
\* for which take-profit > average fill price > stop-trigger (prices on the
\* tick grid, as the bracket would carry them) does not hold, a market sell
\* of the filled quantity was issued, a validation error was raised and no
\* OCO was submitted.
C4_InvalidRelationFlattens ==
    (/\ UsesBracket
     /\ position > 0
     /\ pc \notin {"buy_poll", "pba_validate"}
     /\ ~(/\ (sig.tp1 \div TickSize) * TickSize > avg_price
          /\ avg_price > (sig.stop \div TickSize) * TickSize))
        => /\ Len(sells) = 1
           /\ sells[1].qty = filled_qty
           /\ pbaOutcome = "raised"
           /\ pbaErr.stage = "validation"
           /\ ocoLog = <<>>

\* the spec's scenario: take-profit 102 below the fill price 105
C4_Witness ==
    /\ UsesBracket
    /\ sig.tp1 = 102
    /\ avg_price = 105
    /\ pbaErr.stage = "validation"
    /\ Len(sells) = 1
    /\ ocoLog = <<>>

\* C5: when the compensating market sell of place_bracket_atomic failed, the
\* raised error reports the flatten failure and does not say the position
\* was flattened.
C5_FlattenFailureSurfaced ==
    (PbaEnded /\ \E i \in DOMAIN sells : ~sells[i].ok)
        => (pbaErr.reports_flatten_failure /\ ~pbaErr.says_flattened)

\* C6: every OCO submitted for a filled position has take-profit > average
\* fill price > stop-trigger.
C6_SubmittedRelation ==
    \A e \in Entries : e.tp > e.fill /\ e.fill > e.sl

\* C7: every OCO request sent has its stop-limit at least one tick below its
\* stop-trigger.
C7_StopLimitBelowTrigger ==
    \A e \in Entries : e.sllim <= e.sl - TickSize

\* an override-mode request for which the stop-limit handed to place_oco
\* floors onto the stop-trigger's tick, so lines 70-71 lowered it
C7_Witness ==
    \E e \in Entries :
        /\ e.by = "override"
        /\ (FinalSlLimit \div TickSize) * TickSize >= (FinalSl \div TickSize) * TickSize
        /\ e.sllim = e.sl - TickSize

\* C8: every submitted bracket quantity is at most min(filled quantity, last
\* observed free balance) x 0.999.
C8_QtyWithinBuffer ==
    \A e \in Entries : e.qty * 1000 <= Min(e.filled, e.free) * 999

\* C9: place_bracket_atomic submits the OCO at most 3 times, and every
\* submission that was followed by another one was rejected for
\* insufficient balance.
C9_RetryOnlyInsufficient ==
    /\ Len(PbaLog) <= 3
    /\ \A i \in 1..(Len(PbaLog) - 1) : PbaLog[i].result = "insufficient_balance"

\* the spec's scenario: two insufficient-balance rejections, third accepted
C9_Witness ==
    /\ Len(PbaLog) = 3
    /\ PbaLog[1].result = "insufficient_balance"
    /\ PbaLog[2].result = "insufficient_balance"
    /\ PbaLog[3].result = "accepted"

\* C10: each retry of place_bracket_atomic submits a quantity strictly
\* smaller than the previous attempt's.
C10_RetryShrinks ==
    \A i \in 2..Len(PbaLog) : PbaLog[i].qty < PbaLog[i-1].qty

\* C11: when place_bracket_atomic has ended with "Market buy failed", the
\* exchange executed nothing of the run's entry order.
C11_EntryFailureBoughtNothing ==
    (UsesBracket /\ pbaErr.stage = "entry") => executed = 0

\* C12: when execute_limit_buy has reported not-filled, the limit buy order
\* is not open on the exchange.
C12_NotFilledNotResting ==
    (LimitEntry /\ sigOutcome = "limit_cancel") => ~resting

\* C13: every key of the OCO tracker is the id of an OCO order list the
\* exchange accepted.
C13_TrackerKeysIssued == DOMAIN tracker \subseteq liveOco

Accepted == {e \in Entries : e.result = "accepted"}

\* C14: when on_signal has ended in fixed_oco mode and the exchange accepted
\* its bracket, the tracker maps the bracket id to the average fill price, and
\* the "BUY filled" notification was sent with the fill price, a quantity
\* (filled or bracket quantity), and the take-profit, stop-trigger, stop-limit
\* and id of the accepted bracket.
C14_AcceptedBracketRecorded ==
    (sigOutcome # "running" /\ ~Trailing /\ Accepted # {})
        => /\ IssuedId \in DOMAIN tracker
           /\ tracker[IssuedId] = avg_price
           /\ notified.sent
           /\ notified.fill = avg_price
           /\ notified.id = IssuedId
           /\ notified.has_sllim
           /\ \E e \in Accepted :
                /\ notified.tp = e.tp
                /\ notified.sl = e.sl
                /\ notified.sllim = e.sllim
                /\ notified.qty \in {filled_qty, e.qty}

TrailingFailedAfterCancel ==
    /\ cancelOk
    /\ trailLog # <<>>
    /\ \A i \in DOMAIN trailLog : ~trailLog[i].ok
TrailingPlaced == \E i \in DOMAIN trailLog : trailLog[i].ok

\* C15: after the cancel of the fixed stop succeeded and the trailing-stop
\* submission failed, a trailing stop is eventually accepted (the watcher
\* keeps running, activation prices and accepting submissions recur).
C15_TrailingRetried == TrailingFailedAfterCancel ~> TrailingPlaced

\* C16: every trailing-stop submission follows an observed price at or above
\* the activation price and a successful cancel of the fixed stop, with the
\* position not sold by the stop; at most one submission is accepted.
C16_TrailingOnlyAfterSwap ==
    /\ \A i \in DOMAIN trailLog :
         /\ trailLog[i].hit
         /\ trailLog[i].cancelled
         /\ ~trailLog[i].stop_open
         /\ trailLog[i].held
    /\ Cardinality({i \in DOMAIN trailLog : trailLog[i].ok}) <= 1
    /\ (~held => trailLog = <<>>)

\* fill at 100, price 101 observed (exactly the activation price), the stop
\* cancelled and the trailing stop accepted
C16_Witness ==
    /\ avg_price = 100
    /\ curr_px = 101
    /\ cancelOk
    /\ ~slOpen
    /\ Len(trailLog) = 1
    /\ trailLog[1].ok

Proceeded(t) == tpc[t] \in {"sizing", "ordering", "ended"}
Skipped(t) == tpc[t] \in {"dup_notify", "skipped"}
BothChecked(t, u) ==
    /\ t # u
    /\ checkedAt[t] >= 0
    /\ checkedAt[u] >= 0
    /\ tsig[t].sym = tsig[u].sym
    /\ Abs(checkedAt[t] - checkedAt[u]) < DupWindow

\* C17 as stated: of two invocations for the same symbol with entry prices
\* less than 1e-6 apart, checked less than 180 s apart, not both proceed.
C17_AsStated ==
    \A t, u \in Tasks :
        (BothChecked(t, u) /\ Abs(tsig[t].entry - tsig[u].entry) < Micro)
            => ~(Proceeded(t) /\ Proceeded(u))

\* C17, amended: of two invocations for the same symbol whose entry prices
\* round to the same value at 6 decimals, checked less than 180 s apart,
\* exactly one proceeds to sizing and the other takes the duplicate-skipped
\* return.
C17_OneProceeds ==
    \A t, u \in Tasks :
        (BothChecked(t, u) /\ Round6(tsig[t].entry) = Round6(tsig[u].entry))
            => \/ Proceeded(t) /\ Skipped(u)
               \/ Proceeded(u) /\ Skipped(t)

\* entries 2.0000006 and 2.0000014, checks 120 s apart, the later one skipped
C17_Witness ==
    /\ tsig[1].sym = tsig[2].sym
    /\ tsig[1].entry = 20000006
    /\ tsig[2].entry = 20000014
    /\ checkedAt[2] >= 0
    /\ checkedAt[1] = checkedAt[2] + 120
    /\ tpc[2] = "ordering"
    /\ tpc[1] = "skipped"

\* C18: while on_signal is in entry-fill polling, balance-settlement waiting,
\* bracket submission or verification, every reconciliation loop whose sleep
\* is over can be resumed by the event loop.
C18_LoopsNotStalled ==
    (ophase \in {"entry_poll", "balance_wait", "oco_submit", "verify"})
        => \A l \in Loops : lpc[l] = "ready" => ENABLED LoopRun(l)

\* the assets of a pass and what the exchange holds about them
DogOpen == DOMAIN open_assets
Priced(a) == DogQuote(dfacts[a].markets) # "none"
Worth(a) == open_assets[a] * dfacts[a].price
Protected(a) == dfacts[a].tp \/ dfacts[a].sl

C20_FilledChildClassified ==
    cpc = "ended" =>
        \A id \in {k \in cstart : NumericKey(k)} :
            LET o == chist[id]
            IN  /\ (Counts(o) /\ cfetched[id] # "failed")
                     => /\ id \notin DOMAIN tracker
                        /\ Len(chits[id]) = 1
                        /\ chits[id][1].label =
                             IF HasStop(o.type) THEN "SL"
                             ELSE IF HasTakeProfit(o.type) THEN "TP"
                             ELSE IF o.price < chits[id][1].entry THEN "SL" ELSE "TP"
                /\ ~Counts(o) => (id \in DOMAIN tracker /\ chits[id] = <<>>)

\* C21: a hit is reported for an order id only if the order closed with a
\* positive filled amount, under the label of its type (TP for a take-profit
\* type, SL for a stop-loss type), at most once; whenever the lookup of an id
\* that left the open orders answers and the order closed with a positive
\* filled amount, the hit is reported; a cancelled order is never reported.
ClosedWithFill(i) == xorders[i].status = "closed" /\ xorders[i].filled > 0

C21_FillReportedOnce ==
    \A i \in OrderIds :
        /\ Len(mreports[i]) <= 1
        /\ mreports[i] # <<>> =>
              /\ ClosedWithFill(i)
              /\ xorders[i].type = "TAKE_PROFIT_LIMIT" => mreports[i][1] = "TP"
              /\ xorders[i].type = "STOP_LOSS_LIMIT" => mreports[i][1] = "SL"
              /\ mreports[i][1] \in {"TP", "SL"}
        /\ (mlook[i] = "ok" /\ ClosedWithFill(i)) => mreports[i] # <<>>
        /\ xorders[i].status = "canceled" => mreports[i] = <<>>

C21_Witness ==
    /\ mreports[1] = <<"TP">>
    /\ mlook[2] = "ok" /\ xorders[2].status = "canceled" /\ mreports[2] = <<>>
    /\ mreports[4] = <<"SL">>
    /\ mlook[3] = "failed"

\* C22: every order the monitor asks to cancel is the other leg of the
\* bracket of an order it reported as filled.
C22_OnlySiblingCancelled ==
    \A j \in mcancels :
        \E i \in OrderIds :
            /\ mreports[i] # <<>>
            /\ i # j
            /\ xorders[i].bracket = xorders[j].bracket

\* the leg types among the listed open orders of a symbol
ListedLegs(sym) == {o.type : o \in {x \in alisted : x.symbol = sym /\ x.type \in LegTypes}}

\* C23, the warnings: at the end of a pass that listed the open orders, a
\* symbol has a warning (one, naming the absent leg) exactly if its listed
\* protective orders hold one of the two leg types and not the other.
C23_WarningsOfPass ==
    (apc = "ended" /\ alisted # {}) =>
        \A sym \in AuditSymbols :
            /\ Cardinality(ListedLegs(sym)) = 1 =>
                  awarned[sym] = <<IF ListedLegs(sym) = {"STOP_LOSS_LIMIT"} THEN "TP" ELSE "SL">>
            /\ Cardinality(ListedLegs(sym)) # 1 => awarned[sym] = <<>>

\* C23: the warnings are as above, and no step of the Audit Loop changes an
\* order on the exchange or the OCO tracker.
C23_AuditWarnsOnly ==
    /\ []C23_WarningsOfPass
    /\ [][AuditStep => (xorders' = xorders /\ tracker' = tracker)]_vars

C23_Witness ==
    /\ apc = "ended"
    /\ ListedLegs("AAA/USDT") = {"STOP_LOSS_LIMIT"}
    /\ ListedLegs("BBB/USDT") = LegTypes
    /\ awarned["AAA/USDT"] = <<"TP">>
    /\ awarned["BBB/USDT"] = <<>>

InBalanceWait == pc \in {"pba_balance", "poaf_balance"}
AfterBalanceWait == IF pc = "pba_balance" THEN "pba_prepare" ELSE "poaf_place"
C25_BalanceWaitBounded ==
    [][InBalanceWait =>
         /\ waited < BalanceWaitPolls
         /\ \/ /\ pc' = pc
               /\ waited' = waited + 1
               /\ waited' < BalanceWaitPolls
               /\ free_balance' * 100 < filled_qty * 95
            \/ pc' = AfterBalanceWait]_vars

\* C26: execute_market_buy makes at most 20 polls; when it returns, the
\* order is FILLED and the result is its executed quantity and its cumulative
\* quote quantity divided by that quantity; after 20 polls none of which
\* showed FILLED it has raised "not filled in time"; whenever it raises
\* there is no result.
C26_MarketBuyResult ==
    /\ bpolls <= MarketBuyPolls
    /\ bpc = "returned" =>
          /\ border.status = "FILLED"
          /\ berror = "none"
          /\ bresult.filled_qty = border.executedQty
          /\ bresult.price * border.executedQty = border.cummulativeQuoteQty
    /\ bpolls = MarketBuyPolls => (bpc = "raised" /\ berror = "not_filled_in_time")
    /\ berror = "not_filled_in_time" => bpolls = MarketBuyPolls
    /\ bpc = "raised" => (berror # "none" /\ bresult = NoResult)

C26_Witness ==
    /\ bpc = "returned"
    /\ bpolls > 0
    /\ bresult = [filled_qty |-> 4, price |-> 10150]

\* C27: in a submitted bracket, on either path, a live price at or below the
\* stop-trigger held before gives a stop-trigger one tick below the live price
\* with the stop-limit below it, and a live price at or above the take-profit
\* held before gives a take-profit one tick above the live price.
C27_TriggersShifted ==
    kpc = "submitted" =>
        /\ klast <= kreq.sl => (ksent.sl = klast - TickSize /\ ksent.sllim < ksent.sl)
        /\ klast >= kreq.tp => ksent.tp = klast + TickSize

\* C28: when the quantity sent differs from the quantity passed because a
\* leg was below the minimum notional, it is a multiple of the lot step, both
\* legs are worth at least the minimum notional, and the prices sent are the
\* prices passed.
C28_RaisedQtyClearsMinimum ==
    (npc = "sent" /\ (nin.tp * nin.quantity < nin.min_notional
                        \/ nin.sl_trigger * nin.quantity < nin.min_notional)) =>
        /\ nout.qty % nin.step = 0
        /\ nout.tp * nout.qty >= nin.min_notional
        /\ nout.sl * nout.qty >= nin.min_notional
        /\ nout.tp = nin.tp
        /\ nout.sl = nin.sl_trigger

\* C29: the result of a quantizer is a multiple of the grid unit, is not above
\* the input and is less than one unit below it; a grid-aligned input comes
\* back unchanged, and quantizing the result again gives the result.
C29_LargestMultipleBelow ==
    qpc = "done" =>
        /\ qout.once % qin.unit = 0
        /\ qout.once <= qin.value
        /\ qin.value - qout.once < qin.unit
        /\ qin.value % qin.unit = 0 => qout.once = qin.value
        /\ qout.twice = qout.once

\* C30: a list_tracked_oco after track_oco(symbol, id, entry) returns a map
\* that holds id with that symbol and entry; untrack_oco(id) leaves the file
\* as it was but for the key of id; a restart leaves the file as it was and
\* the list after it returns what the file held.
C30_TrackerIsDurableMap ==
    /\ (tlast.op = "track" /\ tlisted) =>
          /\ ~tlist.raised
          /\ tlast.id \in DOMAIN tlist.map
          /\ tlist.map[tlast.id] = [symbol |-> tlast.symbol, entry |-> tlast.entry]
    /\ tlast.op = "untrack" =>
          /\ DOMAIN tfile = DOMAIN tprev \ {StrOf(tlast.id)}
          /\ \A k \in DOMAIN tfile : tfile[k] = tprev[k]
    /\ tlast.op = "restart" => tfile = tprev

\* C31: when verify_oco times out on a bracket the exchange accepted,
\* place_bracket_atomic sends no market sell and no cancel (the sells, the
\* bracket requests, the live brackets and the position stay as they are) and
\* returns normally with the id the exchange issued.
C31_TimeoutKeepsBracket ==
    [][(pc = "pba_verify" /\ pc' # "pba_verify" /\ ~verified') =>
          /\ oco_id = IssuedId
          /\ sells' = sells
          /\ ocoLog' = ocoLog
          /\ liveOco' = liveOco
          /\ position' = position
          /\ pbaOutcome' = "returned"
          /\ res_oco_id' = IssuedId]_vars
C31_Witness ==
    /\ pc = "sig_post"
    /\ pbaOutcome = "returned"
    /\ ~verified
    /\ res_oco_id = IssuedId
    /\ liveOco # {}
    /\ sells = <<>>

\* C32: Notifier.send lets no error reach the caller, changes neither the
\* orders nor the tracker while it runs, and the caller goes on after it to
\* the same tracker contents and the same outcome whether or not any
\* send_message was delivered.
C32_DeliveryFailureIsSilent ==
    /\ ~nraised
    /\ spc \in {"sending", "returned"} => tracker = nbefore
    /\ spc = "resumed" =>
          /\ tracker = After(nsite, nbefore).tracker
          /\ noutcome = After(nsite, nbefore).outcome
    /\ sells = <<>> /\ ocoLog = <<>> /\ liveOco = {}
C32_Witness ==
    /\ spc = "resumed"
    /\ nsite = "tp_hit"
    /\ ~ndelivered
    /\ ntry = Fallbacks(impl)
    /\ IssuedId \in DOMAIN nbefore
    /\ DOMAIN tracker = {"oco2"}
    /\ noutcome = "untracked"

\* C33: at every point of on_signal the fields of the signal object equal
\* the fields it had when it was handed over.
C33_SignalUnchanged == gsig = ghanded

\* a condition under which on_signal returns before the first order
GateCondition ==
    \/ ~gfacts.pair_found
    \/ gcfg.cap_filter /\ ~gfacts.cap_ok
    \/ gfacts.dup
    \/ ~gcfg.dry_run /\ gfacts.spend # Unknown /\ gfacts.spend < MinNotionalUsdt
    \/ gfacts.last # Unknown /\ ~Acceptable(gfacts.last, ghanded.entry) /\ ~gcfg.use_limit
    \/ gfacts.amount = 0
    \/ gcfg.dry_run

\* C34: a run that ended at a pre-entry gate, and any run in which a gate
\* condition was found, has sent no buy, sell, OCO or cancel request and has
\* left the tracker as it was.
C34_GatesSendNothing ==
    (gend \in PreEntryGates \/ (gpc # "off" /\ GateCondition)) =>
        /\ gsent = {}
        /\ tracker = gbefore
        /\ gpc = "ended" => gend \in PreEntryGates \cup {"raised"}
C34_Witness ==
    /\ gend = "amount_zero"
    /\ ~gcfg.dry_run
    /\ gfacts.spend = 6
    /\ gsent = {}
    /\ DOMAIN tracker = {"oco2"}

\* C35: when execute_limit_buy returned (None, None, oid) and on_signal ended
\* on it, the exchange has executed nothing of the limit order.
C35_NotFilledMeansNothingBought ==
    (pc = "sig_done" /\ sigOutcome = "limit_cancel") => executed = 0

\* C36: the watchdog market-sells no asset while the run that bought it is
\* between its entry fill and the placement of its protective order.
C36_NoFlattenMidRun == rsoldAt \cap RaceWindows = {}

\* C37: for a tracked bracket of which one leg filled, the two loops
\* together send at most one hit notification and emit at most one
\* order_filled event, and exactly one of each once neither loop has the
\* bracket left to look at.
C37_OneReportPerFill ==
    \A b \in HitBrackets :
        /\ Len(hnotes[b]) <= 1
        /\ Len(hevents[b]) <= 1
        /\ (hfilled[b] # "none" /\ b \notin htracker /\ hmtracked[b] = {}) =>
              (Len(hnotes[b]) = 1 /\ Len(hevents[b]) = 1)

\* C38: a tracked bracket with a filled child in the order history is
\* eventually notified and no longer tracked, whatever else the tracker holds.
C38_FilledEventuallyRemoved ==
    \A id \in {"oco1", "oco2"} :
        (id \in DOMAIN tracker /\ Counts(chist[id]))
            ~> (id \notin DOMAIN tracker /\ chits[id] # <<>>)

\* C39: whenever no call is between its read and its write, every id whose
\* track_oco has returned is in the tracker file and no id whose untrack_oco
\* has returned is, under every interleaving of the two tasks; and no other
\* task runs while a call is between its read and its write.
C39_NoLostUpdate ==
    /\ \A t \in RmwTasks : upc[t] = "read" => uloop = t
    /\ (\A t \in RmwTasks : upc[t] = "await") =>
          /\ udone["orchestrator"] \subseteq DOMAIN ufile
          /\ udone["oco_classifier"] \cap DOMAIN ufile = {}
C39_Witness ==
    /\ \A t \in RmwTasks : utodo[t] = <<>> /\ upc[t] = "await"
    /\ udone["orchestrator"] = NewIds
    /\ udone["oco_classifier"] = OldIds
    /\ DOMAIN ufile = NewIds

\* C40: at the end of every cycle of monitor the status file was rewritten
\* with the backend state of the cycle, one backend alert was sent if the
\* debounced state differs from that of the cycle before, and none if it does
\* not.
C40_StatusAndAlertEveryCycle ==
    hpc = "sleep" =>
        /\ hwritten
        /\ hstate # hprev => halerts = 1
        /\ hstate = hprev => halerts = 0

====
